---- MODULE Spec2Model ----
(***************************************************************************)
(* Model of notice_boards.services.sqlite_text_storage.SqliteTextStorage:  *)
(* a partitioned store of zstd-compressed texts kept in one SQLite file    *)
(* per (nuts3_id, year), with per-file and global compression dictionaries.*)
(*                                                                         *)
(* A text is a sequence of Unicode code points, a byte string a sequence   *)
(* of 0..255.  A zstd frame is modelled by the bytes it encodes and the    *)
(* dictionary it was produced with; a trained dictionary is modelled by    *)
(* a digest of the samples it was trained from (their number and the first *)
(* sample), so that training twice from the same samples gives the same    *)
(* dictionary and training from other samples can give another one.        *)
(***************************************************************************)
EXTENDS Integers, Sequences, FiniteSets, TLC

(***************************************************************************)
(* Bounds of the model.  The three thresholds are the module constants of  *)
(* the source (50, 200, 500, and the literal 5 of train_global_dictionary) *)
(* scaled down, keeping their order 5 < 50 < 200 < 500.                    *)
(***************************************************************************)
DICT_TRAINING_THRESHOLD == 2

GLOBAL_DICT_TRAINING_THRESHOLD == 3

DICT_TRAINING_MAX_SAMPLES == 4

MIN_PER_FILE == 1

MaxItemId == 2

\* The manual train_global_dictionary call is enabled while the global
\* dictionary file holds fewer rows than this.
MaxGlobalDicts == 2

NO_DICT_ID == 0

GLOBAL_DICT_ID == -1

GLOBAL_DICT_DB == <<"", "_global_dict.sqlite">>

\* Python's None, for a missing nuts3_id or year.
None == -1

ItemIds == 1..MaxItemId

Nuts3Ids == {None, 116}

Years == {2024}

\* "" and "ž": the empty text and a text with a two-byte code point.
Texts == {<< >>, <<382>>}

Facades == {1, 2}

\* The facade the single-facade specification drives.
Main == 1

(***************************************************************************)
(* str.encode("utf-8") and bytes.decode("utf-8")                           *)
(***************************************************************************)
EncodeCodePoint(cp) ==
    IF cp < 128 THEN <<cp>>
    ELSE IF cp < 2048 THEN <<192 + (cp \div 64), 128 + (cp % 64)>>
    ELSE <<224 + (cp \div 4096), 128 + ((cp \div 64) % 64), 128 + (cp % 64)>>

RECURSIVE Utf8Encode(_)
Utf8Encode(text) ==
    IF text = << >> THEN << >>
    ELSE EncodeCodePoint(Head(text)) \o Utf8Encode(Tail(text))

RECURSIVE Utf8Decode(_)
Utf8Decode(bytes) ==
    IF bytes = << >> THEN << >>
    ELSE IF bytes[1] < 128 THEN <<bytes[1]>> \o Utf8Decode(SubSeq(bytes, 2, Len(bytes)))
    ELSE IF bytes[1] < 224
         THEN <<(bytes[1] - 192) * 64 + (bytes[2] - 128)>>
              \o Utf8Decode(SubSeq(bytes, 3, Len(bytes)))
    ELSE <<(bytes[1] - 224) * 4096 + (bytes[2] - 128) * 64 + (bytes[3] - 128)>>
         \o Utf8Decode(SubSeq(bytes, 4, Len(bytes)))

(***************************************************************************)
(* The zstd codec.  A dictionary handle is a record; NoDict stands for     *)
(* Python's None where a ZstdCompressionDict is expected.                  *)
(***************************************************************************)
NoDict == [kind |-> "none", samples |-> << >>]

\* Marks a ref that has no entry in the _dicts cache.
NotCached == [kind |-> "notcached", samples |-> << >>]

\* zstd.train_dictionary: the dictionary is a function of the samples.
TrainDictionary(samples) ==
    [kind |-> "dict", samples |-> <<Len(samples), samples[1]>>]

\* ZstdCompressor(dict_data=d).compress: the frame records the dictionary id.
ZstdCompress(bytes, d) == [bytes |-> bytes, dict |-> d]

\* len(data) of a frame: magic, header and block header, the dictionary id
\* field when a dictionary was used, and the content.
FrameLen(data) == 9 + (IF data.dict = NoDict THEN 0 ELSE 4) + Len(data.bytes)

\* ZstdDecompressor(dict_data=d).decompress raises ZstdError when the frame
\* names a dictionary other than d; a frame without dictionary id decodes
\* under any decompressor.
ZstdOk(data, d) == data.dict = NoDict \/ data.dict = d

(***************************************************************************)
(* Partitioning                                                            *)
(***************************************************************************)
\* str(int) for the integers the model uses.
Str(n) == ToString(n)

\* _compute_ref_from_parts filing a missing year under a regular year.
_compute_ref_from_parts_DefaultYear(nuts3_id, year) ==
    <<IF nuts3_id # None /\ nuts3_id # 0 THEN Str(nuts3_id) ELSE "_unknown",
      (IF year # None /\ year # 0 THEN Str(year) ELSE "2024") \o ".sqlite">>

_compute_ref_from_parts(nuts3_id, year) ==
    <<IF nuts3_id # None /\ nuts3_id # 0 THEN Str(nuts3_id) ELSE "_unknown",
      (IF year # None /\ year # 0 THEN Str(year) ELSE "_nodate") \o ".sqlite">>

\* A PendingExtraction: id, nuts3_id and the year of published_at (None when
\* published_at is missing).  The region-less partition receives item 1 only.
Contexts ==
    {p \in [id : ItemIds, nuts3_id : Nuts3Ids, year : Years] :
        p.nuts3_id # None \/ p.id = 1}

_compute_ref(pending) == _compute_ref_from_parts(pending.nuts3_id, pending.year)

\* The partition files the contexts can resolve to.
Refs == {_compute_ref_from_parts(n, y) : n \in Nuts3Ids, y \in Years}

\* The arguments _compute_ref_from_parts is studied on: a missing value, the
\* falsy integer 0 and a regular value.
ResolveNuts3 == {None, 0, 116}

ResolveYears == {None, 0, 2024}

\* The regions and years of a store of many partition files, which global
\* training samples file by file.
QuotaNuts3 == {None, 116, 19}

QuotaYears == {None, 2024}

\* The partition files those arguments resolve to.
ResolveRefs ==
    {_compute_ref_from_parts(n, y) : n \in ResolveNuts3, y \in ResolveYears}

\* Every partition file of the model.
AllRefs ==
    ResolveRefs
        \cup {_compute_ref_from_parts(n, y) : n \in QuotaNuts3, y \in QuotaYears}

\* AllRefs in the order of sorted(base_path.rglob("*.sqlite")).
SortedRefs ==
    <<<<"116", "2024.sqlite">>, <<"116", "_nodate.sqlite">>,
      <<"19", "2024.sqlite">>, <<"19", "_nodate.sqlite">>,
      <<"_unknown", "2024.sqlite">>, <<"_unknown", "_nodate.sqlite">>>>

(***************************************************************************)
(* State.  disk is the directory tree under base_path: the paths that      *)
(* exist, and the two tables of every SQLite file.  fac[f] holds the       *)
(* fields of facade instance f.  saved is a history variable: the text the *)
(* latest save stored under each (partition, item_id) that has not been    *)
(* deleted since.  th is the state of the threads that drive facade Main   *)
(* in the multi-threaded specification: the thread that created each       *)
(* pooled connection and, per thread, its position in save and its local   *)
(* variables; the single-threaded specifications leave it as it starts.    *)
(***************************************************************************)
VARIABLES disk, fac, saved, th

vars == <<disk, fac, saved, th>>

\* No text saved: not a text, as -1 is no code point.
Absent == <<-1>>

EmptyDisk ==
    [exists |-> {},
     dirs |-> {},
     texts |-> [r \in AllRefs |-> {}],
     dictionaries |-> [r \in AllRefs \cup {GLOBAL_DICT_DB} |-> << >>]]

\* SqliteTextStorage.__init__
NewFacade ==
    [connections |-> {},
     dicts |-> [r \in AllRefs |-> NotCached],
     global_dict |-> NoDict,
     global_dict_loaded |-> FALSE]

NoStats ==
    [total_texts |-> 0, total_original_bytes |-> 0, total_compressed_bytes |-> 0,
     ratio_x100 |-> 0, num_files |-> 0, num_dictionaries |-> 0]

\* What a call returned.  kind is "None", "text" (the str in text), "int"
\* (in n), "True", "False", "counts" (recompress_all's dict in counts, a ref
\* it leaves out mapped to 0), "stats" (get_stats' dict in stats) or
\* "ZstdError" (the call raised zstd.ZstdError).
Ret(kind) ==
    [kind |-> kind, text |-> << >>, n |-> 0, counts |-> [r \in AllRefs |-> 0],
     stats |-> NoStats]

RetText(text) == [Ret("text") EXCEPT !.text = text]

RetInt(n) == [Ret("int") EXCEPT !.n = n]

RetBool(b) == Ret(IF b THEN "True" ELSE "False")


\* The worker threads that share facade Main, and the value for "no thread".
Threads == {1, 2}

NoThread == 0

\* The local variables of a thread outside save.  conn is the thread that
\* created the connection the variable conn of save holds.
IdleLocal ==
    [pc |-> "idle", conn |-> NoThread, id |-> 1, text |-> << >>,
     data |-> [bytes |-> << >>, dict |-> NoDict], dict_id |-> NO_DICT_ID]

\* Before the worker threads start: the facade is driven by one thread.
NoThreads ==
    [phase |-> "setup",
     owner |-> [r \in AllRefs |-> NoThread],
     loc |-> [t \in Threads |-> IdleLocal]]

Init ==
    /\ disk = EmptyDisk
    /\ fac = [f \in Facades |-> NewFacade]
    /\ saved = [r \in AllRefs |-> [i \in ItemIds |-> Absent]]
    /\ th = NoThreads

(***************************************************************************)
(* SQL helpers                                                             *)
(***************************************************************************)
\* SELECT ... FROM texts WHERE attachment_id = ?
RowsWithId(rows, id) == {row \in rows : row.attachment_id = id}

RECURSIVE OrderedFrom(_, _)
OrderedFrom(rows, id) ==
    IF id > MaxItemId THEN << >>
    ELSE (IF RowsWithId(rows, id) = {} THEN << >>
          ELSE <<CHOOSE row \in RowsWithId(rows, id) : TRUE>>)
         \o OrderedFrom(rows, id + 1)

\* SELECT ... FROM texts ORDER BY attachment_id LIMIT ?
OrderByIdLimit(rows, limit) ==
    LET all == OrderedFrom(rows, 1)
    IN  SubSeq(all, 1, IF Len(all) < limit THEN Len(all) ELSE limit)

\* A plain INSERT into a table without the primary key.
InsertOrReplace_Insert(rows, row) == rows \cup {row}

\* INSERT OR REPLACE INTO texts: attachment_id is the primary key.
InsertOrReplace(rows, row) ==
    (rows \ RowsWithId(rows, row.attachment_id)) \cup {row}

\* The partition files that exist, in sorted(rglob("*.sqlite")) order, the
\* global dictionary file left out.
PartitionFiles(d) == SelectSeq(SortedRefs, LAMBDA r : r \in d.exists)

(***************************************************************************)
(* Connection management                                                   *)
(***************************************************************************)
_get_connection(s, ref) ==
    IF ref \in s.f.connections THEN s
    ELSE [disk |-> [s.disk EXCEPT !.dirs = @ \cup {ref[1]},
                                  !.exists = @ \cup {ref}],
          f |-> [s.f EXCEPT !.connections = @ \cup {ref}]]

(***************************************************************************)
(* Dictionary selection                                                    *)
(***************************************************************************)
_load_global_dict(s) ==
    IF s.f.global_dict_loaded THEN [s |-> s, r |-> s.f.global_dict]
    ELSE LET s1 == [s EXCEPT !.f.global_dict_loaded = TRUE]
             rows == s.disk.dictionaries[GLOBAL_DICT_DB]
         IN  IF GLOBAL_DICT_DB \notin s.disk.exists THEN [s |-> s1, r |-> NoDict]
             ELSE IF rows = << >> THEN [s |-> s1, r |-> NoDict]
             ELSE [s |-> [s1 EXCEPT !.f.global_dict = rows[Len(rows)].dict_data],
                   r |-> rows[Len(rows)].dict_data]

\* _get_dict preferring the global dictionary to the partition's own.
_get_dict_GlobalFirst(s, ref) ==
    IF s.f.dicts[ref] # NotCached THEN [s |-> s, r |-> s.f.dicts[ref]]
    ELSE LET rows == s.disk.dictionaries[ref]
             g == _load_global_dict(s)
         IN  IF g.r # NoDict
             THEN [s |-> [g.s EXCEPT !.f.dicts[ref] = g.r], r |-> g.r]
             ELSE IF rows # << >>
             THEN [s |-> [g.s EXCEPT !.f.dicts[ref] = rows[Len(rows)].dict_data],
                   r |-> rows[Len(rows)].dict_data]
             ELSE [s |-> [g.s EXCEPT !.f.dicts[ref] = NoDict], r |-> NoDict]

_get_dict(s, ref) ==
    IF s.f.dicts[ref] # NotCached THEN [s |-> s, r |-> s.f.dicts[ref]]
    ELSE LET rows == s.disk.dictionaries[ref]
             g == _load_global_dict(s)
         IN  IF rows # << >>
             THEN [s |-> [s EXCEPT !.f.dicts[ref] = rows[Len(rows)].dict_data],
                   r |-> rows[Len(rows)].dict_data]
             ELSE [s |-> [g.s EXCEPT !.f.dicts[ref] = g.r], r |-> g.r]

_is_global_dict(s, ref) ==
    IF s.disk.dictionaries[ref] # << >> THEN [s |-> s, r |-> FALSE]
    ELSE LET g == _load_global_dict(s) IN [s |-> g.s, r |-> g.r # NoDict]

\* _current_dict_id without its GLOBAL_DICT_ID branch.
_current_dict_id_NeverGlobal(s, ref) ==
    LET d == _get_dict(s, ref)
    IN  IF d.r = NoDict THEN [s |-> d.s, r |-> NO_DICT_ID]
        ELSE [s |-> d.s, r |-> Len(d.s.disk.dictionaries[ref])]

\* _current_dict_id answering with the id the next dictionary row would get.
_current_dict_id_NextId(s, ref) ==
    LET d == _get_dict(s, ref)
        g == _is_global_dict(d.s, ref)
    IN  IF d.r = NoDict THEN [s |-> d.s, r |-> NO_DICT_ID]
        ELSE IF g.r THEN [s |-> g.s, r |-> GLOBAL_DICT_ID]
        ELSE [s |-> g.s, r |-> Len(g.s.disk.dictionaries[ref]) + 1]

_current_dict_id(s, ref) ==
    LET d == _get_dict(s, ref)
        g == _is_global_dict(d.s, ref)
    IN  IF d.r = NoDict THEN [s |-> d.s, r |-> NO_DICT_ID]
        ELSE IF g.r THEN [s |-> g.s, r |-> GLOBAL_DICT_ID]
        ELSE [s |-> g.s, r |-> Len(g.s.disk.dictionaries[ref])]

_compress(s, ref, text) ==
    LET d == _get_dict(s, ref)
    IN  [s |-> d.s, r |-> ZstdCompress(Utf8Encode(text), d.r)]

\* The dictionary _decompress builds its decompressor from.
DecompressDict(s, ref, dict_id) ==
    IF dict_id = NO_DICT_ID THEN [s |-> s, r |-> NoDict]
    ELSE IF dict_id = GLOBAL_DICT_ID THEN _load_global_dict(s)
    ELSE IF dict_id \in 1..Len(s.disk.dictionaries[ref])
         THEN [s |-> s, r |-> s.disk.dictionaries[ref][dict_id].dict_data]
    ELSE [s |-> s, r |-> NoDict]

_decompress(s, ref, data, dict_id) ==
    LET d == DecompressDict(s, ref, dict_id)
    IN  [s |-> d.s,
         r |-> IF ZstdOk(data, d.r) THEN RetText(Utf8Decode(data.bytes))
               ELSE Ret("ZstdError")]

(***************************************************************************)
(* Dictionary training                                                     *)
(***************************************************************************)
\* The body of the loop of _collect_samples: the sample one row yields, as a
\* sequence of zero or one byte strings.
SampleOf(d, ref, gd, row) ==
    IF row.dict_id = NO_DICT_ID
    THEN (IF ZstdOk(row.data, NoDict) THEN <<row.data.bytes>> ELSE << >>)
    ELSE IF row.dict_id = GLOBAL_DICT_ID /\ gd # NoDict
    THEN (IF ZstdOk(row.data, gd) THEN <<row.data.bytes>> ELSE << >>)
    ELSE IF row.dict_id \in 1..Len(d.dictionaries[ref])
    THEN (IF ZstdOk(row.data, d.dictionaries[ref][row.dict_id].dict_data)
          THEN <<row.data.bytes>> ELSE << >>)
    ELSE << >>

RECURSIVE SamplesOf(_, _, _, _)
SamplesOf(d, ref, gd, rows) ==
    IF rows = << >> THEN << >>
    ELSE SampleOf(d, ref, gd, Head(rows)) \o SamplesOf(d, ref, gd, Tail(rows))

_collect_samples(s, ref, limit) ==
    LET rows == OrderByIdLimit(s.disk.texts[ref], limit)
        g == _load_global_dict(s)
    IN  [s |-> g.s, r |-> SamplesOf(s.disk, ref, g.r, rows)]

\* INSERT INTO dictionaries (dict_data, sample_count): the id is the row's
\* position, rows are never deleted.
InsertDictionary(d, file, dict_data, n) ==
    [d EXCEPT !.dictionaries[file] =
                  Append(@, [dict_data |-> dict_data, sample_count |-> n])]

\* _train_per_file_dictionary leaving the cached handle in place.
_train_per_file_dictionary_KeepCache(s, ref, codec_ok) ==
    LET c == _collect_samples(s, ref, DICT_TRAINING_MAX_SAMPLES)
    IN  IF Len(c.r) < DICT_TRAINING_THRESHOLD THEN c.s
        ELSE IF ~codec_ok THEN c.s
        ELSE [disk |-> InsertDictionary(c.s.disk, ref, TrainDictionary(c.r), Len(c.r)),
              f |-> c.s.f]

\* _train_per_file_dictionary storing a dictionary also when the codec has
\* rejected the samples.
_train_per_file_dictionary_StoreRejected(s, ref, codec_ok) ==
    LET c == _collect_samples(s, ref, DICT_TRAINING_MAX_SAMPLES)
    IN  IF Len(c.r) < DICT_TRAINING_THRESHOLD THEN c.s
        ELSE [disk |-> InsertDictionary(c.s.disk, ref, TrainDictionary(c.r), Len(c.r)),
              f |-> [c.s.f EXCEPT !.dicts[ref] = NotCached]]

\* codec_ok: whether zstd.train_dictionary accepts the samples.
_train_per_file_dictionary(s, ref, codec_ok) ==
    LET c == _collect_samples(s, ref, DICT_TRAINING_MAX_SAMPLES)
    IN  IF Len(c.r) < DICT_TRAINING_THRESHOLD THEN c.s
        ELSE IF ~codec_ok THEN c.s
        ELSE [disk |-> InsertDictionary(c.s.disk, ref, TrainDictionary(c.r), Len(c.r)),
              f |-> [c.s.f EXCEPT !.dicts[ref] = NotCached]]

Max(a, b) == IF a > b THEN a ELSE b

\* The loop of train_global_dictionary over file_refs: every file's
\* connection is opened and its samples appended.
RECURSIVE CollectAll(_, _, _)
CollectAll(s, refs, per_file) ==
    IF refs = << >> THEN [s |-> s, r |-> << >>]
    ELSE LET c == _collect_samples(_get_connection(s, Head(refs)), Head(refs), per_file)
             rest == CollectAll(c.s, Tail(refs), per_file)
         IN  [s |-> rest.s, r |-> c.r \o rest.r]

\* The cache reset without self._dicts.clear().
ResetCaches_KeepDicts(f) ==
    [f EXCEPT !.global_dict = NoDict, !.global_dict_loaded = FALSE]

\* The cache reset at the end of a successful train_global_dictionary.
ResetCaches(f) ==
    [f EXCEPT !.global_dict = NoDict,
              !.global_dict_loaded = FALSE,
              !.dicts = [r \in AllRefs |-> NotCached]]

\* train_global_dictionary dropping the cached handles also when it gives
\* up for want of samples.
train_global_dictionary_ResetOnFail(s, codec_ok) ==
    LET file_refs == PartitionFiles(s.disk)
        per_file == Max(MIN_PER_FILE, DICT_TRAINING_MAX_SAMPLES \div Len(file_refs))
        c == CollectAll(s, file_refs, per_file)
        all_samples == SubSeq(c.r, 1, IF Len(c.r) > DICT_TRAINING_MAX_SAMPLES
                                      THEN DICT_TRAINING_MAX_SAMPLES ELSE Len(c.r))
    IN  IF file_refs = << >> THEN [s |-> s, r |-> FALSE]
        ELSE IF Len(c.r) < GLOBAL_DICT_TRAINING_THRESHOLD
        THEN [s |-> [c.s EXCEPT !.f = ResetCaches(@)], r |-> FALSE]
        ELSE IF ~codec_ok THEN [s |-> c.s, r |-> FALSE]
        ELSE [s |-> [disk |-> [InsertDictionary(c.s.disk, GLOBAL_DICT_DB,
                                                TrainDictionary(all_samples),
                                                Len(all_samples))
                               EXCEPT !.exists = @ \cup {GLOBAL_DICT_DB}],
                     f |-> ResetCaches(c.s.f)],
              r |-> TRUE]

train_global_dictionary(s, codec_ok) ==
    LET file_refs == PartitionFiles(s.disk)
        per_file == Max(MIN_PER_FILE, DICT_TRAINING_MAX_SAMPLES \div Len(file_refs))
        c == CollectAll(s, file_refs, per_file)
        all_samples == SubSeq(c.r, 1, IF Len(c.r) > DICT_TRAINING_MAX_SAMPLES
                                      THEN DICT_TRAINING_MAX_SAMPLES ELSE Len(c.r))
    IN  IF file_refs = << >> THEN [s |-> s, r |-> FALSE]
        ELSE IF Len(c.r) < GLOBAL_DICT_TRAINING_THRESHOLD THEN [s |-> c.s, r |-> FALSE]
        ELSE IF ~codec_ok THEN [s |-> c.s, r |-> FALSE]
        ELSE [s |-> [disk |-> [InsertDictionary(c.s.disk, GLOBAL_DICT_DB,
                                                TrainDictionary(all_samples),
                                                Len(all_samples))
                               EXCEPT !.exists = @ \cup {GLOBAL_DICT_DB}],
                     f |-> ResetCaches(c.s.f)],
              r |-> TRUE]

\* The counting loop opening, and so creating, every partition file the
\* contexts can resolve to.
ConnectAll_Create(s, refs) ==
    [disk |-> [s.disk EXCEPT !.dirs = @ \cup {r[1] : r \in Refs},
                             !.exists = @ \cup Refs],
     f |-> [s.f EXCEPT !.connections = @ \cup Refs]]

\* Opens a connection to every partition file, as the counting loop of
\* _maybe_train_global_dictionary and get_stats do.
RECURSIVE ConnectAll(_, _)
ConnectAll(s, refs) ==
    IF refs = << >> THEN s
    ELSE ConnectAll(_get_connection(s, Head(refs)), Tail(refs))

\* SELECT COUNT(*) FROM texts, summed over the files.
RECURSIVE TotalTexts(_, _)
TotalTexts(d, refs) ==
    IF refs = << >> THEN 0
    ELSE Cardinality(d.texts[Head(refs)]) + TotalTexts(d, Tail(refs))

_maybe_train_global_dictionary(s, codec_ok) ==
    LET files == PartitionFiles(s.disk)
        s1 == ConnectAll(s, files)
        total == TotalTexts(s.disk, files)
    IN  IF total < GLOBAL_DICT_TRAINING_THRESHOLD THEN s1
        ELSE train_global_dictionary(s1, codec_ok).s

\* _maybe_train_dictionary training only above the threshold.
_maybe_train_dictionary_Above(s, ref, codec_ok) ==
    LET g == _load_global_dict(s)
    IN  IF s.disk.dictionaries[ref] # << >> THEN s
        ELSE IF Cardinality(s.disk.texts[ref]) > DICT_TRAINING_THRESHOLD
        THEN _train_per_file_dictionary(s, ref, codec_ok)
        ELSE IF g.r = NoDict THEN _maybe_train_global_dictionary(g.s, codec_ok)
        ELSE g.s

\* _maybe_train_dictionary without the test for an existing dictionary.
_maybe_train_dictionary_Retrain(s, ref, codec_ok) ==
    LET g == _load_global_dict(s)
    IN  IF Cardinality(s.disk.texts[ref]) >= DICT_TRAINING_THRESHOLD
        THEN _train_per_file_dictionary(s, ref, codec_ok)
        ELSE IF g.r = NoDict THEN _maybe_train_global_dictionary(g.s, codec_ok)
        ELSE g.s

_maybe_train_dictionary(s, ref, codec_ok) ==
    LET g == _load_global_dict(s)
    IN  IF s.disk.dictionaries[ref] # << >> THEN s
        ELSE IF Cardinality(s.disk.texts[ref]) >= DICT_TRAINING_THRESHOLD
        THEN _train_per_file_dictionary(s, ref, codec_ok)
        ELSE IF g.r = NoDict THEN _maybe_train_global_dictionary(g.s, codec_ok)
        ELSE g.s

(***************************************************************************)
(* Public API.  Each operator maps the state s = [disk, f] of the directory *)
(* and of the calling facade to the state after the call (s) and the       *)
(* value returned (r).                                                     *)
(***************************************************************************)
\* The row with the length of the text bytes as compressed_size.
TextRow_TextLength(id, data, dict_id, original_size) ==
    [attachment_id |-> id, data |-> data, dict_id |-> dict_id,
     original_size |-> original_size, compressed_size |-> Len(data.bytes)]

TextRow(id, data, dict_id, original_size) ==
    [attachment_id |-> id, data |-> data, dict_id |-> dict_id,
     original_size |-> original_size, compressed_size |-> FrameLen(data)]

\* codec_ok: whether the one zstd.train_dictionary call this save can reach
\* accepts its samples.
save(s, pending, text, codec_ok) ==
    LET ref == _compute_ref(pending)
        c == _compress(_get_connection(s, ref), ref, text)
        i == _current_dict_id(c.s, ref)
        row == TextRow(pending.id, c.r, i.r, Len(Utf8Encode(text)))
        s1 == [i.s EXCEPT !.disk.texts[ref] = InsertOrReplace(@, row)]
    IN  [s |-> _maybe_train_dictionary(s1, ref, codec_ok),
         r |-> RetInt(FrameLen(c.r))]

load(s, pending) ==
    LET ref == _compute_ref(pending)
        s1 == _get_connection(s, ref)
        rows == RowsWithId(s1.disk.texts[ref], pending.id)
        row == CHOOSE x \in rows : TRUE
    IN  IF ref \notin s.disk.exists THEN [s |-> s, r |-> Ret("None")]
        ELSE IF rows = {} THEN [s |-> s1, r |-> Ret("None")]
        ELSE _decompress(s1, ref, row.data, row.dict_id)

load_by_id(s, attachment_id, nuts3_id, year) ==
    LET ref == _compute_ref_from_parts(nuts3_id, year)
        s1 == _get_connection(s, ref)
        rows == RowsWithId(s1.disk.texts[ref], attachment_id)
        row == CHOOSE x \in rows : TRUE
    IN  IF ref \notin s.disk.exists THEN [s |-> s, r |-> Ret("None")]
        ELSE IF rows = {} THEN [s |-> s1, r |-> Ret("None")]
        ELSE _decompress(s1, ref, row.data, row.dict_id)

\* delete returning rowcount >= 0.
delete_AlwaysTrue(s, pending) ==
    LET ref == _compute_ref(pending)
        s1 == _get_connection(s, ref)
        rows == RowsWithId(s1.disk.texts[ref], pending.id)
    IN  IF ref \notin s.disk.exists THEN [s |-> s, r |-> RetBool(FALSE)]
        ELSE [s |-> [s1 EXCEPT !.disk.texts[ref] = @ \ rows],
              r |-> RetBool(Cardinality(rows) >= 0)]

delete(s, pending) ==
    LET ref == _compute_ref(pending)
        s1 == _get_connection(s, ref)
        rows == RowsWithId(s1.disk.texts[ref], pending.id)
    IN  IF ref \notin s.disk.exists THEN [s |-> s, r |-> RetBool(FALSE)]
        ELSE [s |-> [s1 EXCEPT !.disk.texts[ref] = @ \ rows],
              r |-> RetBool(Cardinality(rows) > 0)]

\* exists without the db_path.exists() check.
exists_NoPathCheck(s, pending) ==
    LET ref == _compute_ref(pending)
        s1 == _get_connection(s, ref)
    IN  [s |-> s1,
         r |-> RetBool(RowsWithId(s1.disk.texts[ref], pending.id) # {})]

exists(s, pending) ==
    LET ref == _compute_ref(pending)
        s1 == _get_connection(s, ref)
    IN  IF ref \notin s.disk.exists THEN [s |-> s, r |-> RetBool(FALSE)]
        ELSE [s |-> s1,
              r |-> RetBool(RowsWithId(s1.disk.texts[ref], pending.id) # {})]

\* close closing the connections only.
close_KeepDicts(s) ==
    [s |-> [s EXCEPT !.f.connections = {}], r |-> Ret("None")]

close(s) ==
    [s |-> [s EXCEPT !.f.connections = {},
                     !.f.dicts = [r \in AllRefs |-> NotCached],
                     !.f.global_dict = NoDict,
                     !.f.global_dict_loaded = FALSE],
     r |-> Ret("None")]

\* exc: whether the with block is left through an exception; __exit__
\* returns None, so the exception propagates after the close.
__exit__(s, exc) == close(s)

\* SUM(column) over a texts table.
RECURSIVE SumRows(_, _)
SumRows(rows, column) ==
    IF rows = {} THEN 0
    ELSE LET row == CHOOSE x \in rows : TRUE
         IN  row[column] + SumRows(rows \ {row}, column)

RECURSIVE SumFiles(_, _, _)
SumFiles(d, refs, column) ==
    IF refs = << >> THEN 0
    ELSE SumRows(d.texts[Head(refs)], column) + SumFiles(d, Tail(refs), column)

RECURSIVE TotalDictionaries(_, _)
TotalDictionaries(d, refs) ==
    IF refs = << >> THEN 0
    ELSE Len(d.dictionaries[Head(refs)]) + TotalDictionaries(d, Tail(refs))

\* round(a / b, 2) in hundredths, ties to even.
RoundRatio(a, b) ==
    LET q == (100 * a) \div b
        twice == 2 * ((100 * a) % b)
    IN  IF twice > b \/ (twice = b /\ q % 2 = 1) THEN q + 1 ELSE q

\* get_stats counting the rows of the global dictionary file as well.
get_stats_CountGlobal(s) ==
    LET files == PartitionFiles(s.disk)
        original == SumFiles(s.disk, files, "original_size")
        compressed == SumFiles(s.disk, files, "compressed_size")
    IN  [s |-> ConnectAll(s, files),
         r |-> [Ret("stats") EXCEPT !.stats =
                  [total_texts |-> TotalTexts(s.disk, files),
                   total_original_bytes |-> original,
                   total_compressed_bytes |-> compressed,
                   ratio_x100 |-> IF compressed > 0 THEN RoundRatio(original, compressed)
                                  ELSE 0,
                   num_files |-> Len(files),
                   num_dictionaries |->
                       TotalDictionaries(s.disk, files)
                       + Len(s.disk.dictionaries[GLOBAL_DICT_DB])]]]

get_stats(s) ==
    LET files == PartitionFiles(s.disk)
        original == SumFiles(s.disk, files, "original_size")
        compressed == SumFiles(s.disk, files, "compressed_size")
    IN  [s |-> ConnectAll(s, files),
         r |-> [Ret("stats") EXCEPT !.stats =
                  [total_texts |-> TotalTexts(s.disk, files),
                   total_original_bytes |-> original,
                   total_compressed_bytes |-> compressed,
                   ratio_x100 |-> IF compressed > 0 THEN RoundRatio(original, compressed)
                                  ELSE 0,
                   num_files |-> Len(files),
                   num_dictionaries |-> TotalDictionaries(s.disk, files)]]]

(***************************************************************************)
(* Recompression                                                           *)
(***************************************************************************)
\* Whether the loop body of recompress_with_dictionary decompresses the row
\* (no ZstdError).
\* The loop body taking every row as decompressed.
RecompressOk_Always(gd, row) == TRUE

RecompressOk(gd, row) ==
    IF row.dict_id = GLOBAL_DICT_ID /\ gd # NoDict THEN ZstdOk(row.data, gd)
    ELSE ZstdOk(row.data, NoDict)

\* The selection without the records tagged GLOBAL.
RecompressRows_NoneOnly(rows) == {row \in rows : row.dict_id = NO_DICT_ID}

\* The rows recompress_with_dictionary selects: dict_id IN (0, -1).
RecompressRows(rows) ==
    {row \in rows : row.dict_id \in {NO_DICT_ID, GLOBAL_DICT_ID}}

\* The UPDATE writing the new length into original_size as well.
RecompressRow_BothSizes(row, d, dict_id) ==
    [row EXCEPT !.data = ZstdCompress(row.data.bytes, d),
                !.dict_id = dict_id,
                !.original_size = FrameLen(ZstdCompress(row.data.bytes, d)),
                !.compressed_size = FrameLen(ZstdCompress(row.data.bytes, d))]

\* UPDATE texts SET data, dict_id, compressed_size WHERE attachment_id = ?
RecompressRow(row, d, dict_id) ==
    [row EXCEPT !.data = ZstdCompress(row.data.bytes, d),
                !.dict_id = dict_id,
                !.compressed_size = FrameLen(ZstdCompress(row.data.bytes, d))]

recompress_with_dictionary(s, ref) ==
    LET d == _get_dict(_get_connection(s, ref), ref)
        i == _current_dict_id(d.s, ref)
        rows == RecompressRows(i.s.disk.texts[ref])
        g == _load_global_dict(i.s)
        done == {row \in rows : RecompressOk(g.r, row)}
        ids == {row.attachment_id : row \in done}
    IN  IF d.r = NoDict THEN [s |-> d.s, r |-> RetInt(0)]
        ELSE IF i.r = NO_DICT_ID THEN [s |-> i.s, r |-> RetInt(0)]
        ELSE IF rows = {} THEN [s |-> i.s, r |-> RetInt(0)]
        ELSE [s |-> [g.s EXCEPT !.disk.texts[ref] =
                        {IF row.attachment_id \in ids
                         THEN RecompressRow(row, d.r, i.r) ELSE row : row \in @}],
              r |-> RetInt(Cardinality(done))]

RECURSIVE RecompressEach(_, _, _)
RecompressEach(s, refs, counts) ==
    IF refs = << >> THEN [s |-> s, r |-> counts]
    ELSE LET c == recompress_with_dictionary(s, Head(refs))
         IN  RecompressEach(c.s, Tail(refs), [counts EXCEPT ![Head(refs)] = c.r.n])

recompress_all(s) ==
    LET c == RecompressEach(s, PartitionFiles(s.disk), [r \in AllRefs |-> 0])
    IN  [s |-> c.s, r |-> [Ret("counts") EXCEPT !.counts = c.r]]

(***************************************************************************)
(* Actions: one public call of facade f, run to completion.                *)
(***************************************************************************)
World(f) == [disk |-> disk, f |-> fac[f]]

Save(f, pending, text, codec_ok) ==
    LET c == save(World(f), pending, text, codec_ok)
    IN  /\ disk' = c.s.disk
        /\ fac' = [fac EXCEPT ![f] = c.s.f]
        /\ saved' = [saved EXCEPT ![_compute_ref(pending)][pending.id] = text]
        /\ UNCHANGED th

Load(f, pending) ==
    LET c == load(World(f), pending)
    IN  /\ disk' = c.s.disk
        /\ fac' = [fac EXCEPT ![f] = c.s.f]
        /\ UNCHANGED saved
        /\ UNCHANGED th

LoadById(f, attachment_id, nuts3_id, year) ==
    LET c == load_by_id(World(f), attachment_id, nuts3_id, year)
    IN  /\ disk' = c.s.disk
        /\ fac' = [fac EXCEPT ![f] = c.s.f]
        /\ UNCHANGED saved
        /\ UNCHANGED th

Delete(f, pending) ==
    LET c == delete(World(f), pending)
    IN  /\ disk' = c.s.disk
        /\ fac' = [fac EXCEPT ![f] = c.s.f]
        /\ saved' = [saved EXCEPT ![_compute_ref(pending)][pending.id] = Absent]
        /\ UNCHANGED th

Exists(f, pending) ==
    LET c == exists(World(f), pending)
    IN  /\ disk' = c.s.disk
        /\ fac' = [fac EXCEPT ![f] = c.s.f]
        /\ UNCHANGED saved
        /\ UNCHANGED th

GetStats(f) ==
    LET c == get_stats(World(f))
    IN  /\ disk' = c.s.disk
        /\ fac' = [fac EXCEPT ![f] = c.s.f]
        /\ UNCHANGED saved
        /\ UNCHANGED th

Close(f) ==
    LET c == close(World(f))
    IN  /\ disk' = c.s.disk
        /\ fac' = [fac EXCEPT ![f] = c.s.f]
        /\ UNCHANGED saved
        /\ UNCHANGED th

Exit(f, exc) ==
    LET c == __exit__(World(f), exc)
    IN  /\ disk' = c.s.disk
        /\ fac' = [fac EXCEPT ![f] = c.s.f]
        /\ UNCHANGED saved
        /\ UNCHANGED th

TrainGlobalDictionary(f, codec_ok) ==
    LET c == train_global_dictionary(World(f), codec_ok)
    IN  /\ Len(disk.dictionaries[GLOBAL_DICT_DB]) < MaxGlobalDicts
        /\ disk' = c.s.disk
        /\ fac' = [fac EXCEPT ![f] = c.s.f]
        /\ UNCHANGED saved
        /\ UNCHANGED th

RecompressWithDictionary(f, ref) ==
    LET c == recompress_with_dictionary(World(f), ref)
    IN  /\ disk' = c.s.disk
        /\ fac' = [fac EXCEPT ![f] = c.s.f]
        /\ UNCHANGED saved
        /\ UNCHANGED th

RecompressAll(f) ==
    LET c == recompress_all(World(f))
    IN  /\ disk' = c.s.disk
        /\ fac' = [fac EXCEPT ![f] = c.s.f]
        /\ UNCHANGED saved
        /\ UNCHANGED th

Next ==
    \/ \E p \in Contexts, t \in Texts, ok \in BOOLEAN : Save(Main, p, t, ok)
    \/ \E p \in Contexts : Load(Main, p)
    \/ \E p \in Contexts : LoadById(Main, p.id, p.nuts3_id, p.year)
    \/ \E p \in Contexts : Delete(Main, p)
    \/ \E p \in Contexts : Exists(Main, p)
    \/ GetStats(Main)
    \/ Close(Main)
    \/ \E exc \in BOOLEAN : Exit(Main, exc)
    \/ \E ok \in BOOLEAN : TrainGlobalDictionary(Main, ok)
    \/ \E ref \in Refs : RecompressWithDictionary(Main, ref)
    \/ RecompressAll(Main)

Spec == Init /\ [][Next]_vars

(***************************************************************************)
(* Vocabulary of the properties                                            *)
(***************************************************************************)
\* The state the single facade works on.
W == World(Main)

\* The rows stored for a context, in a given directory state.
RowsOf(d, pending) == RowsWithId(d.texts[_compute_ref(pending)], pending.id)

\* The latest row of a dictionaries table, NoDict when it has none.
LatestDict(d, file) ==
    IF d.dictionaries[file] = << >> THEN NoDict
    ELSE d.dictionaries[file][Len(d.dictionaries[file])].dict_data

\* The dictionary a tag names in a partition: the one a payload carrying
\* this tag has to have been compressed with.
DictOfTag(d, ref, dict_id) ==
    IF dict_id = NO_DICT_ID THEN NoDict
    ELSE IF dict_id = GLOBAL_DICT_ID THEN LatestDict(d, GLOBAL_DICT_DB)
    ELSE IF dict_id \in 1..Len(d.dictionaries[ref])
         THEN d.dictionaries[ref][dict_id].dict_data
    ELSE NotCached

\* The stored text a context's record holds according to the history.
SavedText(pending) == saved[_compute_ref(pending)][pending.id]

(***************************************************************************)
(* C1: from every reachable state, for every context and text, save       *)
(* followed directly by load of the same context returns exactly the text  *)
(* saved, whatever dictionary the save selected and whether or not it      *)
(* trained one.                                                            *)
(***************************************************************************)
C1_RoundTrip ==
    \A p \in Contexts, t \in Texts, ok \in BOOLEAN :
        load(save(W, p, t, ok).s, p).r = RetText(t)

\* A record with a non-ASCII text stored under each of the three regimes,
\* one of them in the partition whose dictionary a save trained, and each
\* loading back as saved.
C1_Witness ==
    /\ \E p \in Contexts : \E row \in RowsOf(disk, p) :
           /\ row.dict_id = GLOBAL_DICT_ID
           /\ row.data.dict # NoDict
           /\ SavedText(p) = <<382>>
           /\ load(W, p).r = RetText(<<382>>)
    /\ \E p \in Contexts : \E row \in RowsOf(disk, p) :
           /\ row.dict_id > 0
           /\ row.data.dict # NoDict
           /\ SavedText(p) = <<382>>
           /\ load(W, p).r = RetText(<<382>>)
    /\ \E p \in Contexts : \E row \in RowsOf(disk, p) :
           /\ row.dict_id = NO_DICT_ID
           /\ disk.dictionaries[_compute_ref(p)] # << >>
           /\ SavedText(p) = << >>
           /\ load(W, p).r = RetText(<< >>)

(***************************************************************************)
(* C2: in every reachable state, every stored record is decompressed by    *)
(* load with exactly the dictionary its payload was compressed with, and   *)
(* load returns the text last saved under that item_id in that partition.  *)
(***************************************************************************)
C2_LoadUsesCompressionDict ==
    \A p \in Contexts : \A row \in RowsOf(disk, p) :
        /\ DecompressDict(W, _compute_ref(p), row.dict_id).r = row.data.dict
        /\ load(W, p).r = RetText(SavedText(p))

(***************************************************************************)
(* C3: save selects the dictionary by priority.  From every reachable      *)
(* state, the record a save stores is compressed with and tagged by the    *)
(* partition's highest-id dictionary row if the partition has one (also    *)
(* when a global dictionary exists); else with the global dictionary,      *)
(* tagged GLOBAL, if the global dictionary file holds one; else without    *)
(* dictionary, tagged NONE.                                                *)
(***************************************************************************)
C3_SavePriority ==
    \A p \in Contexts, t \in Texts, ok \in BOOLEAN :
        LET ref == _compute_ref(p)
            rows == RowsOf(save(W, p, t, ok).s.disk, p)
            own == disk.dictionaries[ref]
            glob == disk.dictionaries[GLOBAL_DICT_DB]
        IN  \A row \in rows :
                IF own # << >>
                THEN /\ row.dict_id = Len(own)
                     /\ row.data = ZstdCompress(Utf8Encode(t), own[Len(own)].dict_data)
                ELSE IF GLOBAL_DICT_DB \in disk.exists /\ glob # << >>
                THEN /\ row.dict_id = GLOBAL_DICT_ID
                     /\ row.data = ZstdCompress(Utf8Encode(t), glob[Len(glob)].dict_data)
                ELSE /\ row.dict_id = NO_DICT_ID
                     /\ row.data = ZstdCompress(Utf8Encode(t), NoDict)

\* Saves have stored records under all three regimes, and in a partition
\* that has its own dictionary while a global dictionary exists the stored
\* record carries the partition's dictionary.
C3_Witness ==
    /\ disk.dictionaries[GLOBAL_DICT_DB] # << >>
    /\ \E p \in Contexts : \E row \in RowsOf(disk, p) :
           /\ disk.dictionaries[_compute_ref(p)] # << >>
           /\ row.dict_id = Len(disk.dictionaries[_compute_ref(p)])
           /\ row.data.dict = LatestDict(disk, _compute_ref(p))
    /\ \E p \in Contexts : \E row \in RowsOf(disk, p) :
           /\ row.dict_id = GLOBAL_DICT_ID
           /\ row.data.dict = LatestDict(disk, GLOBAL_DICT_DB)
    /\ \E p \in Contexts : \E row \in RowsOf(disk, p) :
           /\ row.dict_id = NO_DICT_ID
           /\ row.data.dict = NoDict

(***************************************************************************)
(* C4: the training threshold.  In a partition without dictionary rows, a  *)
(* save that leaves fewer than DICT_TRAINING_THRESHOLD records leaves the   *)
(* dictionaries table empty, and the save that brings the record count to  *)
(* DICT_TRAINING_THRESHOLD leaves exactly one dictionary row.              *)
(***************************************************************************)
C4_ThresholdAlwaysTrains ==
    \A p \in Contexts, t \in Texts, ok \in BOOLEAN :
        LET ref == _compute_ref(p)
            post == save(W, p, t, ok).s.disk
        IN  disk.dictionaries[ref] = << >> =>
              /\ Cardinality(post.texts[ref]) < DICT_TRAINING_THRESHOLD
                   => Len(post.dictionaries[ref]) = 0
              /\ ( /\ Cardinality(disk.texts[ref]) = DICT_TRAINING_THRESHOLD - 1
                   /\ Cardinality(post.texts[ref]) = DICT_TRAINING_THRESHOLD )
                   => Len(post.dictionaries[ref]) = 1

\* Every record of a partition decompresses under the dictionary its tag
\* names.
AllDecompress(d, ref) ==
    \A row \in d.texts[ref] : ZstdOk(row.data, DictOfTag(d, ref, row.dict_id))

(***************************************************************************)
(* C4 as amended: below the threshold the dictionaries table stays empty;  *)
(* the save that brings the record count to DICT_TRAINING_THRESHOLD leaves  *)
(* exactly one dictionary row when its training succeeds (the codec        *)
(* accepts the samples and every record of the partition decompresses),    *)
(* and none when it fails.                                                 *)
(***************************************************************************)
C4_ThresholdTrainsOnSuccess ==
    \A p \in Contexts, t \in Texts, ok \in BOOLEAN :
        LET ref == _compute_ref(p)
            post == save(W, p, t, ok).s.disk
        IN  disk.dictionaries[ref] = << >> =>
              /\ Cardinality(post.texts[ref]) < DICT_TRAINING_THRESHOLD
                   => Len(post.dictionaries[ref]) = 0
              /\ ( /\ Cardinality(disk.texts[ref]) = DICT_TRAINING_THRESHOLD - 1
                   /\ Cardinality(post.texts[ref]) = DICT_TRAINING_THRESHOLD )
                   => Len(post.dictionaries[ref]) =
                          IF ok /\ AllDecompress([post EXCEPT !.dictionaries[ref] = << >>], ref)
                          THEN 1 ELSE 0

\* The save that filled a partition to the threshold has trained its one
\* dictionary from all of its records.
C4_Witness ==
    \E ref \in Refs :
        /\ Cardinality(disk.texts[ref]) = DICT_TRAINING_THRESHOLD
        /\ Len(disk.dictionaries[ref]) = 1
        /\ disk.dictionaries[ref][1].sample_count = DICT_TRAINING_THRESHOLD
        /\ \A row \in disk.texts[ref] : row.dict_id = NO_DICT_ID

(***************************************************************************)
(* C5: after a save has trained a per-partition dictionary, the next save  *)
(* into that partition by the same facade is compressed with the new       *)
(* dictionary and tagged with its id.                                      *)
(***************************************************************************)
C5_NextSaveUsesNewDict ==
    \A p \in Contexts, t \in Texts :
        LET ref == _compute_ref(p)
            c == save(W, p, t, TRUE)
            new == c.s.disk.dictionaries[ref]
        IN  (disk.dictionaries[ref] = << >> /\ new # << >>) =>
              \A p2 \in Contexts, t2 \in Texts, ok2 \in BOOLEAN :
                  _compute_ref(p2) = ref =>
                      \A row \in RowsOf(save(c.s, p2, t2, ok2).s.disk, p2) :
                          /\ row.dict_id = Len(new)
                          /\ row.data = ZstdCompress(Utf8Encode(t2),
                                                     new[Len(new)].dict_data)

\* A partition whose dictionary was trained while the facade had the global
\* dictionary cached for it (a record tagged GLOBAL is among its records),
\* and a later record compressed with and tagged by the new dictionary.
C5_Witness ==
    \E ref \in Refs :
        /\ Len(disk.dictionaries[ref]) = 1
        /\ \E row \in disk.texts[ref] : row.dict_id = GLOBAL_DICT_ID
        /\ \E row \in disk.texts[ref] :
               /\ row.dict_id = 1
               /\ row.data.dict = disk.dictionaries[ref][1].dict_data

\* What C6 asks of a state s right after a global training: every save into
\* a partition without its own dictionary uses the latest global dictionary,
\* tags GLOBAL and loads back.
NextSaveUsesGlobal(s) ==
    \A p \in Contexts, t \in Texts, ok \in BOOLEAN :
        s.disk.dictionaries[_compute_ref(p)] = << >> =>
            LET c == save(s, p, t, ok)
            IN  /\ \A row \in RowsOf(c.s.disk, p) :
                       /\ row.dict_id = GLOBAL_DICT_ID
                       /\ row.data = ZstdCompress(Utf8Encode(t),
                                                  LatestDict(s.disk, GLOBAL_DICT_DB))
                /\ load(c.s, p).r = RetText(t)

(***************************************************************************)
(* C6: after train_global_dictionary has succeeded, called manually or by  *)
(* a save, the next save into any partition without a per-partition        *)
(* dictionary is compressed with the new global dictionary, tagged GLOBAL, *)
(* and loads back exactly.                                                 *)
(***************************************************************************)
C6_NextSaveUsesNewGlobal ==
    /\ LET c == train_global_dictionary(W, TRUE)
       IN  c.r => NextSaveUsesGlobal(c.s)
    /\ \A p \in Contexts, t \in Texts :
           LET c == save(W, p, t, TRUE)
           IN  Len(c.s.disk.dictionaries[GLOBAL_DICT_DB])
                   > Len(disk.dictionaries[GLOBAL_DICT_DB])
               => NextSaveUsesGlobal(c.s)

\* A second global dictionary, other than the first, was trained, and a
\* partition without its own dictionary holds a record compressed with it,
\* tagged GLOBAL, that loads back.
C6_Witness ==
    /\ Len(disk.dictionaries[GLOBAL_DICT_DB]) = 2
    /\ disk.dictionaries[GLOBAL_DICT_DB][1] # disk.dictionaries[GLOBAL_DICT_DB][2]
    /\ \E p \in Contexts : \E row \in RowsOf(disk, p) :
           /\ disk.dictionaries[_compute_ref(p)] = << >>
           /\ row.dict_id = GLOBAL_DICT_ID
           /\ row.data.dict = disk.dictionaries[GLOBAL_DICT_DB][2].dict_data
           /\ load(W, p).r = RetText(SavedText(p))

(***************************************************************************)
(* C7: upsert.  After two saves under the same item_id in the same         *)
(* partition the partition holds exactly one record for that item_id; its  *)
(* content, tag and sizes are those of the second save, and the second     *)
(* save does not grow the partition's record count.                        *)
(***************************************************************************)
C7_Upsert ==
    \A p \in Contexts, t1 \in Texts, t2 \in Texts, ok1 \in BOOLEAN, ok2 \in BOOLEAN :
        LET ref == _compute_ref(p)
            first == save(W, p, t1, ok1)
            pick == _current_dict_id(_compress(first.s, ref, t2).s, ref)
            second == save(first.s, p, t2, ok2)
            rows == RowsOf(second.s.disk, p)
        IN  /\ Cardinality(rows) = 1
            /\ \A row \in rows :
                   /\ row.data.bytes = Utf8Encode(t2)
                   /\ row.dict_id = pick.r
                   /\ row.data.dict = DictOfTag(pick.s.disk, ref, pick.r)
                   /\ row.original_size = Len(Utf8Encode(t2))
                   /\ row.compressed_size = FrameLen(row.data)
                   /\ second.r = RetInt(row.compressed_size)
            /\ Cardinality(second.s.disk.texts[ref])
                   = Cardinality(first.s.disk.texts[ref])
            /\ load(second.s, p).r = RetText(t2)

\* A record holding "" is stored, and saving "ž" under its item_id leaves
\* one record, holding "ž".
C7_Witness ==
    \E p \in Contexts :
        /\ SavedText(p) = << >>
        /\ Cardinality(RowsOf(disk, p)) = 1
        /\ LET after == save(W, p, <<382>>, TRUE).s.disk
           IN  /\ Cardinality(RowsOf(after, p)) = 1
               /\ \A row \in RowsOf(after, p) : row.data.bytes = <<197, 190>>
               /\ Cardinality(after.texts[_compute_ref(p)])
                      = Cardinality(disk.texts[_compute_ref(p)])

(***************************************************************************)
(* C8: load(context) and load_by_id(item_id, region_id, year) with the     *)
(* same partition coordinates return the same result: None exactly when    *)
(* the partition file does not exist or holds no record with that item_id, *)
(* and the stored text otherwise; never an error.                          *)
(***************************************************************************)
C8_LoadResult ==
    \A p \in Contexts :
        LET r == load(W, p).r
        IN  /\ r = load_by_id(W, p.id, p.nuts3_id, p.year).r
            /\ r = Ret("None") <=>
                   (_compute_ref(p) \notin disk.exists \/ RowsOf(disk, p) = {})
            /\ r # Ret("None") => r = RetText(SavedText(p))

(***************************************************************************)
(* C9: delete returns True exactly when a record with that item_id existed *)
(* in the resolved partition; it removes only that record (other records,  *)
(* other partitions, all dictionary rows and all files stay), and          *)
(* afterwards exists is False and load is None for the context; when the   *)
(* partition file or the record is absent it returns False and leaves the  *)
(* directory tree and every table as they were.                            *)
(***************************************************************************)
C9_Delete ==
    \A p \in Contexts :
        LET ref == _compute_ref(p)
            had == ref \in disk.exists /\ RowsOf(disk, p) # {}
            c == delete(W, p)
        IN  /\ c.r = RetBool(had)
            /\ c.s.disk = [disk EXCEPT !.texts[ref] = @ \ RowsOf(disk, p)]
            /\ exists(c.s, p).r = RetBool(FALSE)
            /\ load(c.s, p).r = Ret("None")
            /\ ~had => c.s.disk = disk

\* A record was deleted from a partition after its dictionary was trained:
\* the dictionary row, trained from more records than the partition now
\* holds, and another record are still there, the deleted one is not.
C9_Witness ==
    \E p \in Contexts :
        LET ref == _compute_ref(p)
        IN  /\ Len(disk.dictionaries[ref]) = 1
            /\ disk.dictionaries[ref][1].sample_count > Cardinality(disk.texts[ref])
            /\ disk.texts[ref] # {}
            /\ RowsOf(disk, p) = {}
            /\ exists(W, p).r = RetBool(FALSE)
            /\ load(W, p).r = Ret("None")
            /\ delete(W, p).r = RetBool(FALSE)

(***************************************************************************)
(* C10: load, load_by_id, exists and delete for a context whose partition  *)
(* file does not exist create no file and no directory and open no pooled  *)
(* connection: they leave the directory tree and the facade as they were.  *)
(***************************************************************************)
C10_NoFileCreated ==
    \A p \in Contexts :
        _compute_ref(p) \notin disk.exists =>
            /\ load(W, p) = [s |-> W, r |-> Ret("None")]
            /\ load_by_id(W, p.id, p.nuts3_id, p.year) = [s |-> W, r |-> Ret("None")]
            /\ exists(W, p) = [s |-> W, r |-> RetBool(FALSE)]
            /\ delete(W, p) = [s |-> W, r |-> RetBool(FALSE)]

\* The facade has a partition open, and the four calls were made for a
\* context of another partition, whose file, directory and connection do
\* not exist.
C10_Witness ==
    \E p \in Contexts :
        LET ref == _compute_ref(p)
        IN  /\ fac[Main].connections # {}
            /\ ref \notin disk.exists
            /\ ref[1] \notin disk.dirs
            /\ ref \notin fac[Main].connections
            /\ delete(W, p).r = RetBool(FALSE)
            /\ load(W, p).r = Ret("None")

(***************************************************************************)
(* Partition resolution: one facade called with every combination of a     *)
(* missing, a zero and a regular nuts3_id and year.                        *)
(***************************************************************************)
ResolveContexts == [id : {1}, nuts3_id : ResolveNuts3, year : ResolveYears]

NextResolve ==
    \/ \E p \in ResolveContexts, ok \in BOOLEAN : Save(Main, p, << >>, ok)
    \/ \E p \in ResolveContexts : Load(Main, p)
    \/ \E p \in ResolveContexts : LoadById(Main, p.id, p.nuts3_id, p.year)
    \/ \E p \in ResolveContexts : Delete(Main, p)
    \/ \E p \in ResolveContexts : Exists(Main, p)
    \/ Close(Main)

SpecResolve == Init /\ [][NextResolve]_vars

(***************************************************************************)
(* C11: the partition key is a function of (nuts3_id, year) alone.  In     *)
(* every reachable state, for every nuts3_id and year, the key computed    *)
(* from a context and the key computed from the raw values are the same, a *)
(* save creates no partition file but that key's, and the record is found  *)
(* again under the same values; a missing nuts3_id gives the directory     *)
(* "_unknown" and a missing year the file "_nodate.sqlite".                *)
(***************************************************************************)
C11_Resolve ==
    \A p \in ResolveContexts :
        LET key == _compute_ref_from_parts(p.nuts3_id, p.year)
            after == save(W, p, << >>, FALSE).s
        IN  /\ _compute_ref(p) = key
            /\ after.disk.exists \ {GLOBAL_DICT_DB}
                   = (disk.exists \ {GLOBAL_DICT_DB}) \cup {key}
            /\ RowsWithId(after.disk.texts[key], p.id) # {}
            /\ load_by_id(after, p.id, p.nuts3_id, p.year).r = RetText(<< >>)
            /\ p.nuts3_id = None => key[1] = "_unknown"
            /\ p.year = None => key[2] = "_nodate.sqlite"

\* Records saved without nuts3_id, without year, without both and with both,
\* each in its own partition file.
C11_Witness ==
    \A ref \in ResolveRefs : ref \in disk.exists /\ disk.texts[ref] # {}

(***************************************************************************)
(* Vocabulary of the recompression properties                              *)
(***************************************************************************)
\* Whether a record's payload decompresses under the regime its tag names.
Decodes(d, ref, row) == ZstdOk(row.data, DictOfTag(d, ref, row.dict_id))

\* The dictionary recompression of a partition has to use, by the tables on
\* disk: the partition's latest own dictionary, else the global one.
BestDict(d, ref) ==
    IF d.dictionaries[ref] # << >> THEN LatestDict(d, ref)
    ELSE LatestDict(d, GLOBAL_DICT_DB)

\* The tag that names BestDict.
BestTag(d, ref) ==
    IF d.dictionaries[ref] # << >> THEN Len(d.dictionaries[ref])
    ELSE IF d.dictionaries[GLOBAL_DICT_DB] # << >> THEN GLOBAL_DICT_ID
    ELSE NO_DICT_ID

\* The records of a partition a recompression has to rewrite.
Eligible(d, ref) ==
    {row \in d.texts[ref] :
        row.dict_id \in {NO_DICT_ID, GLOBAL_DICT_ID} /\ Decodes(d, ref, row)}

(***************************************************************************)
(* C12: recompress_with_dictionary on a partition without a dictionary of  *)
(* its own rewrites no record and returns 0; rewritten records belong to a *)
(* partition with its own dictionary and are compressed with and tagged    *)
(* with that dictionary.                                                   *)
(***************************************************************************)
C12_NoOwnDictNoRewrite ==
    \A ref \in Refs :
        LET c == recompress_with_dictionary(W, ref)
        IN  /\ disk.dictionaries[ref] = << >> =>
                   c.r = RetInt(0) /\ c.s.disk.texts = disk.texts
            /\ \A row \in c.s.disk.texts[ref] \ disk.texts[ref] :
                   /\ disk.dictionaries[ref] # << >>
                   /\ row.data.dict = LatestDict(disk, ref)
                   /\ row.dict_id = Len(disk.dictionaries[ref])

(***************************************************************************)
(* C12 as amended: recompress_with_dictionary rewrites no record and       *)
(* returns 0 on a partition for which neither an own nor a global          *)
(* dictionary exists.  Otherwise it rewrites exactly the records tagged    *)
(* NONE or GLOBAL that decompress, with the partition's own dictionary and *)
(* its id when the partition has one, and with the global dictionary and   *)
(* the tag GLOBAL when only the global dictionary exists, and returns      *)
(* their number; no other record and no dictionary row changes.            *)
(***************************************************************************)
C12_RewritesWithBestDict ==
    \A ref \in Refs :
        LET c == recompress_with_dictionary(W, ref)
            best == BestDict(disk, ref)
            todo == IF best = NoDict THEN {} ELSE Eligible(disk, ref)
        IN  /\ c.r = RetInt(Cardinality(todo))
            /\ c.s.disk.dictionaries = disk.dictionaries
            /\ \A other \in AllRefs \ {ref} :
                   c.s.disk.texts[other] = disk.texts[other]
            /\ c.s.disk.texts[ref] =
                   {IF row \in todo
                    THEN [row EXCEPT
                            !.data = ZstdCompress(row.data.bytes, best),
                            !.dict_id = BestTag(disk, ref),
                            !.compressed_size =
                                FrameLen(ZstdCompress(row.data.bytes, best))]
                    ELSE row : row \in disk.texts[ref]}

\* A partition without own dictionary, holding a record tagged NONE, while a
\* global dictionary exists: recompression rewrites the record; and a
\* partition with its own dictionary holding a record tagged GLOBAL.
C12_Witness ==
    /\ \E ref \in Refs :
           /\ disk.dictionaries[ref] = << >>
           /\ disk.dictionaries[GLOBAL_DICT_DB] # << >>
           /\ \E row \in disk.texts[ref] : row.dict_id = NO_DICT_ID
           /\ recompress_with_dictionary(W, ref).r.n > 0
    /\ \E ref \in Refs :
           /\ disk.dictionaries[ref] # << >>
           /\ \E row \in disk.texts[ref] :
                  row.dict_id = GLOBAL_DICT_ID /\ row.data.dict # NoDict
           /\ recompress_with_dictionary(W, ref).r.n > 0

(***************************************************************************)
(* C13: recompress_with_dictionary is idempotent.  From every reachable    *)
(* state, a second run on a partition directly after a first run returns 0 *)
(* and leaves every record of the store as the first run left it.          *)
(***************************************************************************)
C13_Idempotent ==
    \A ref \in Refs :
        LET first == recompress_with_dictionary(W, ref)
            second == recompress_with_dictionary(first.s, ref)
        IN  /\ second.r = RetInt(0)
            /\ second.s.disk.texts = first.s.disk.texts

(***************************************************************************)
(* C14: the dictionary tag invariant.  In every state reachable by save,   *)
(* delete, training and recompression, a record's tag is NONE, GLOBAL or   *)
(* the id of a row of its own partition's dictionaries table, and a record *)
(* tagged GLOBAL exists only while the global dictionary file holds a      *)
(* dictionary.                                                             *)
(***************************************************************************)
C14_TagInvariant ==
    \A ref \in AllRefs : \A row \in disk.texts[ref] :
        /\ row.dict_id \in {NO_DICT_ID, GLOBAL_DICT_ID}
                            \cup (1..Len(disk.dictionaries[ref]))
        /\ row.dict_id = GLOBAL_DICT_ID =>
               /\ GLOBAL_DICT_DB \in disk.exists
               /\ disk.dictionaries[GLOBAL_DICT_DB] # << >>

\* A partition with its own dictionary in which recompression has something
\* to retag, next to a record tagged with that dictionary, while another
\* partition holds a record tagged GLOBAL.
C14_Witness ==
    \E ref \in Refs :
        /\ \E row \in disk.texts[ref] : row.dict_id > 0
        /\ \E row \in disk.texts[ref] : row.dict_id = GLOBAL_DICT_ID
        /\ \A row \in recompress_with_dictionary(W, ref).s.disk.texts[ref] :
               row.dict_id > 0
        /\ \E other \in Refs \ {ref} : \E row \in disk.texts[other] :
               row.dict_id = GLOBAL_DICT_ID

(***************************************************************************)
(* Vocabulary of the statistics property                                   *)
(***************************************************************************)
\* The (partition, item_id) pairs saved and not deleted since.
SavedPairs == {pr \in AllRefs \X ItemIds : saved[pr[1]][pr[2]] # Absent}

\* The UTF-8 length of the texts saved under the pairs, summed.
RECURSIVE SavedBytes(_)
SavedBytes(pairs) ==
    IF pairs = {} THEN 0
    ELSE LET pr == CHOOSE x \in pairs : TRUE
         IN  Len(Utf8Encode(saved[pr[1]][pr[2]])) + SavedBytes(pairs \ {pr})

\* The length of the stored payloads of the given partitions, summed.
RECURSIVE PayloadBytes(_)
PayloadBytes(refs) ==
    IF refs = {} THEN 0
    ELSE LET ref == CHOOSE x \in refs : TRUE
         IN  SumRows({[n |-> FrameLen(row.data), id |-> row.attachment_id] :
                         row \in disk.texts[ref]}, "n")
             + PayloadBytes(refs \ {ref})

\* The number of dictionary rows of the given partitions, summed.
RECURSIVE DictionaryRows(_)
DictionaryRows(refs) ==
    IF refs = {} THEN 0
    ELSE LET ref == CHOOSE x \in refs : TRUE
         IN  Len(disk.dictionaries[ref]) + DictionaryRows(refs \ {ref})

(***************************************************************************)
(* C15: in every reachable state get_stats returns the number of records   *)
(* saved and not deleted, the sum of the UTF-8 lengths of their texts, the *)
(* sum of the lengths of their payloads, the number of partition files and *)
(* the number of per-partition dictionary rows, the global dictionary file *)
(* counted nowhere; the ratio is zero when no payload is stored, so on an  *)
(* empty store every count and the ratio are zero.                         *)
(***************************************************************************)
C15_Stats ==
    LET st == get_stats(W).r.stats
    IN  /\ st.total_texts = Cardinality(SavedPairs)
        /\ st.total_original_bytes = SavedBytes(SavedPairs)
        /\ st.total_compressed_bytes = PayloadBytes(AllRefs)
        /\ st.num_files = Cardinality(disk.exists \ {GLOBAL_DICT_DB})
        /\ st.num_dictionaries = DictionaryRows(AllRefs)
        /\ st.total_compressed_bytes = 0 => st.ratio_x100 = 0
        /\ disk.exists = {} => st = NoStats

\* Three records in two partitions, one of them a non-ASCII text, with a
\* per-partition dictionary row and a global dictionary row on disk.
C15_Witness ==
    /\ get_stats(W).r.stats.total_texts = 3
    /\ get_stats(W).r.stats.num_files = 2
    /\ get_stats(W).r.stats.num_dictionaries = 1
    /\ get_stats(W).r.stats.total_original_bytes = 2
    /\ disk.dictionaries[GLOBAL_DICT_DB] # << >>

(***************************************************************************)
(* C16: in every reachable state, close(), and __exit__ whether or not an  *)
(* exception is in flight, leave the facade with an empty connection pool  *)
(* and no cached dictionary handle, per-partition or global, and leave the *)
(* files alone; the next dictionary lookup for any partition then answers  *)
(* from the tables on disk.                                                *)
(***************************************************************************)
C16_Close ==
    \A exc \in BOOLEAN :
        /\ close(W).s = [disk |-> disk, f |-> NewFacade]
        /\ __exit__(W, exc).s = close(W).s
        /\ \A ref \in Refs :
               _get_dict(_get_connection(close(W).s, ref), ref).r
                   = BestDict(disk, ref)

\* The facade as close left it, over a store that holds a per-partition and
\* a global dictionary.
C16_Witness ==
    /\ fac[Main] = NewFacade
    /\ disk.dictionaries[GLOBAL_DICT_DB] # << >>
    /\ \E ref \in Refs : disk.dictionaries[ref] # << >>

(***************************************************************************)
(* Two worker threads sharing facade Main, each saving into its own        *)
(* partition.  One thread first fills the store (Setup) and closes the     *)
(* facade; then the workers run save step by step.  A sqlite3 connection   *)
(* is usable only by the thread that created it (check_same_thread): any   *)
(* execute on it by another thread raises sqlite3.ProgrammingError.        *)
(***************************************************************************)
\* The contexts thread t saves: thread 1 works on region 116, thread 2 on
\* the region-less partition.
ThreadContexts(t) ==
    {p \in Contexts : (p.nuts3_id = 116) <=> (t = 1)}

PartitionOf(t) == _compute_ref(CHOOSE p \in ThreadContexts(t) : TRUE)

Loc(t) == th.loc[t]

\* The call of save in thread t is left through sqlite3.ProgrammingError, or
\* returns.
Leave(t) == [th EXCEPT !.loc[t] = IdleLocal]

\* The owners of the pooled connections after thread t has pooled the
\* connections a step has added.
OwnersAfter(t, f) ==
    [r \in AllRefs |->
        IF r \in f.connections \ fac[Main].connections THEN t ELSE th.owner[r]]

\* The files whose pooled connection, if any, thread t may use.
RECURSIVE Usable(_, _)
Usable(t, refs) ==
    IF refs = << >> THEN << >>
    ELSE (IF Head(refs) \in fac[Main].connections /\ th.owner[Head(refs)] # t
          THEN << >> ELSE <<Head(refs)>>) \o Usable(t, Tail(refs))

\* The files before the first one whose pooled connection belongs to
\* another thread.
RECURSIVE UsablePrefix(_, _)
UsablePrefix(t, refs) ==
    IF refs = << >> THEN << >>
    ELSE IF Head(refs) \in fac[Main].connections /\ th.owner[Head(refs)] # t
    THEN << >>
    ELSE <<Head(refs)>> \o UsablePrefix(t, Tail(refs))

\* per_file of train_global_dictionary.
PerFile(refs) == Max(MIN_PER_FILE, DICT_TRAINING_MAX_SAMPLES \div Len(refs))

\* One thread fills the store before the workers start.
Setup(pending, text, codec_ok) ==
    /\ th.phase = "setup"
    /\ Save(Main, pending, text, codec_ok)

\* The facade is closed and handed to the worker threads.
StartThreads ==
    /\ th.phase = "setup"
    /\ fac' = [fac EXCEPT ![Main] = close(W).s.f]
    /\ th' = [th EXCEPT !.phase = "run"]
    /\ UNCHANGED <<disk, saved>>

\* save, up to the pool lookup of _get_connection.
ThreadSave(t, pending, text) ==
    LET ref == _compute_ref(pending)
        pooled == ref \in fac[Main].connections
    IN  /\ th.phase = "run"
        /\ Loc(t).pc = "idle"
        /\ th' = [th EXCEPT !.loc[t] =
                     [IdleLocal EXCEPT
                        !.pc = IF pooled THEN "compress" ELSE "connect",
                        !.conn = IF pooled THEN th.owner[ref] ELSE NoThread,
                        !.id = pending.id,
                        !.text = text]]
        /\ UNCHANGED <<disk, fac, saved>>

\* _get_connection: mkdir, sqlite3.connect and _ensure_schema.
ThreadConnect(t) ==
    LET ref == PartitionOf(t)
    IN  /\ Loc(t).pc = "connect"
        /\ disk' = [disk EXCEPT !.dirs = @ \cup {ref[1]}, !.exists = @ \cup {ref}]
        /\ th' = [th EXCEPT !.loc[t].conn = t, !.loc[t].pc = "pool"]
        /\ UNCHANGED <<fac, saved>>

\* _get_connection: self._connections[ref] = conn.
ThreadPool(t) ==
    LET ref == PartitionOf(t)
    IN  /\ Loc(t).pc = "pool"
        /\ fac' = [fac EXCEPT ![Main].connections = @ \cup {ref}]
        /\ th' = [th EXCEPT !.owner[ref] = t, !.loc[t].pc = "compress"]
        /\ UNCHANGED <<disk, saved>>

\* save: data = self._compress(ref, conn, text).  _get_dict executes on the
\* connection unless the dictionary is cached.
ThreadCompress(t) ==
    LET ref == PartitionOf(t)
        c == _compress(W, ref, Loc(t).text)
    IN  /\ Loc(t).pc = "compress"
        /\ IF fac[Main].dicts[ref] = NotCached /\ Loc(t).conn # t
           THEN /\ th' = Leave(t)
                /\ UNCHANGED <<disk, fac, saved>>
           ELSE /\ fac' = [fac EXCEPT ![Main] = c.s.f]
                /\ th' = [th EXCEPT !.loc[t].data = c.r, !.loc[t].pc = "tag"]
                /\ UNCHANGED <<disk, saved>>

\* save: dict_id = self._current_dict_id(ref, conn).  It executes on the
\* connection unless the cached dictionary is None.
ThreadTag(t) ==
    LET ref == PartitionOf(t)
        i == _current_dict_id(W, ref)
    IN  /\ Loc(t).pc = "tag"
        /\ IF fac[Main].dicts[ref] # NoDict /\ Loc(t).conn # t
           THEN /\ th' = Leave(t)
                /\ UNCHANGED <<disk, fac, saved>>
           ELSE /\ fac' = [fac EXCEPT ![Main] = i.s.f]
                /\ th' = [th EXCEPT !.loc[t].dict_id = i.r, !.loc[t].pc = "insert"]
                /\ UNCHANGED <<disk, saved>>

\* save: INSERT OR REPLACE INTO texts and commit.
ThreadInsert(t) ==
    LET ref == PartitionOf(t)
        row == TextRow(Loc(t).id, Loc(t).data, Loc(t).dict_id,
                       Len(Utf8Encode(Loc(t).text)))
    IN  /\ Loc(t).pc = "insert"
        /\ IF Loc(t).conn # t
           THEN /\ th' = Leave(t)
                /\ UNCHANGED <<disk, fac, saved>>
           ELSE /\ disk' = [disk EXCEPT !.texts[ref] = InsertOrReplace(@, row)]
                /\ saved' = [saved EXCEPT ![ref][Loc(t).id] = Loc(t).text]
                /\ th' = [th EXCEPT !.loc[t].pc = "train"]
                /\ UNCHANGED fac

\* _maybe_train_dictionary, up to the call of _maybe_train_global_dictionary.
ThreadMaybeTrain(t, codec_ok) ==
    LET ref == PartitionOf(t)
        g == _load_global_dict(W)
        trained == _train_per_file_dictionary(W, ref, codec_ok)
    IN  /\ Loc(t).pc = "train"
        /\ UNCHANGED saved
        /\ IF disk.dictionaries[ref] # << >>
           THEN th' = Leave(t) /\ UNCHANGED <<disk, fac>>
           ELSE IF Cardinality(disk.texts[ref]) >= DICT_TRAINING_THRESHOLD
           THEN /\ disk' = trained.disk
                /\ fac' = [fac EXCEPT ![Main] = trained.f]
                /\ th' = Leave(t)
           ELSE /\ fac' = [fac EXCEPT ![Main] = g.s.f]
                /\ th' = IF g.r = NoDict THEN [th EXCEPT !.loc[t].pc = "count"]
                         ELSE Leave(t)
                /\ UNCHANGED disk

\* _maybe_train_global_dictionary: the counting loop.  A file whose pooled
\* connection belongs to another thread raises sqlite3.ProgrammingError,
\* which the loop catches, so the file is skipped.
ThreadCount(t) ==
    LET files == Usable(t, PartitionFiles(disk))
        s1 == ConnectAll(W, files)
    IN  /\ Loc(t).pc = "count"
        /\ fac' = [fac EXCEPT ![Main] = s1.f]
        /\ th' = [th EXCEPT
                    !.owner = OwnersAfter(t, s1.f),
                    !.loc[t] = IF TotalTexts(disk, files)
                                    < GLOBAL_DICT_TRAINING_THRESHOLD
                               THEN IdleLocal ELSE [@ EXCEPT !.pc = "global"]]
        /\ UNCHANGED <<disk, saved>>

\* train_global_dictionary up to gconn.close(): the samples are collected,
\* the dictionary is trained and stored.  _collect_samples on a connection of
\* another thread raises sqlite3.ProgrammingError, which nothing catches.
ThreadTrainGlobal(t, codec_ok) ==
    LET files == PartitionFiles(disk)
        mine == UsablePrefix(t, files)
        collected == CollectAll(W, mine, PerFile(files))
        c == train_global_dictionary(W, codec_ok)
    IN  /\ Loc(t).pc = "global"
        /\ UNCHANGED saved
        /\ IF mine # files
           THEN /\ fac' = [fac EXCEPT ![Main] = collected.s.f]
                /\ th' = [Leave(t) EXCEPT !.owner = OwnersAfter(t, collected.s.f)]
                /\ UNCHANGED disk
           ELSE /\ disk' = c.s.disk
                /\ fac' = [fac EXCEPT ![Main] =
                              IF c.r THEN collected.s.f ELSE c.s.f]
                /\ th' = [th EXCEPT
                            !.owner = OwnersAfter(t, collected.s.f),
                            !.loc[t] = IF c.r THEN [@ EXCEPT !.pc = "reset"]
                                       ELSE IdleLocal]

\* train_global_dictionary: the reset of the cached state.
ThreadReset(t) ==
    /\ Loc(t).pc = "reset"
    /\ fac' = [fac EXCEPT ![Main] = ResetCaches(@)]
    /\ th' = Leave(t)
    /\ UNCHANGED <<disk, saved>>

NextThreads ==
    \/ \E p \in Contexts, text \in Texts, ok \in BOOLEAN : Setup(p, text, ok)
    \/ StartThreads
    \/ \E t \in Threads : \E p \in ThreadContexts(t), text \in Texts :
           ThreadSave(t, p, text)
    \/ \E t \in Threads : ThreadConnect(t)
    \/ \E t \in Threads : ThreadPool(t)
    \/ \E t \in Threads : ThreadCompress(t)
    \/ \E t \in Threads : ThreadTag(t)
    \/ \E t \in Threads : ThreadInsert(t)
    \/ \E t \in Threads, ok \in BOOLEAN : ThreadMaybeTrain(t, ok)
    \/ \E t \in Threads : ThreadCount(t)
    \/ \E t \in Threads, ok \in BOOLEAN : ThreadTrainGlobal(t, ok)
    \/ \E t \in Threads : ThreadReset(t)

SpecThreads == Init /\ [][NextThreads]_vars

(***************************************************************************)
(* C17: with two threads driving one facade, each saving into its own      *)
(* partition, in every reachable state every stored record's tag names the *)
(* dictionary its payload was compressed with: none for NONE, the global   *)
(* dictionary for GLOBAL, the row of that id of the partition's own table  *)
(* for a positive tag.                                                     *)
(***************************************************************************)
C17_TagNamesDict ==
    \A ref \in AllRefs : \A row \in disk.texts[ref] :
        row.data.dict = DictOfTag(disk, ref, row.dict_id)

(***************************************************************************)
(* C18: whenever a save returns leaving its partition without its own      *)
(* dictionary, no global dictionary existed and the record counts of all   *)
(* partition files sum to at least T_global, the save has attempted global *)
(* training: the counting loop has left a pooled connection to every       *)
(* partition file, and a global dictionary exists when the codec accepted  *)
(* the samples.                                                            *)
(***************************************************************************)
C18_GlobalTrainingAttempted ==
    \A p \in Contexts, text \in Texts, ok \in BOOLEAN :
        LET c == save(W, p, text, ok).s
        IN  (/\ c.disk.dictionaries[_compute_ref(p)] = << >>
             /\ disk.dictionaries[GLOBAL_DICT_DB] = << >>
             /\ TotalTexts(c.disk, PartitionFiles(c.disk))
                    >= GLOBAL_DICT_TRAINING_THRESHOLD)
            => /\ \A ref \in c.disk.exists \ {GLOBAL_DICT_DB} :
                      ref \in c.f.connections
               /\ ok => c.disk.dictionaries[GLOBAL_DICT_DB] # << >>

(***************************************************************************)
(* One facade without manual calls of train_global_dictionary: every       *)
(* dictionary is trained by a save.                                        *)
(***************************************************************************)
NextAuto ==
    \/ \E p \in Contexts, t \in Texts, ok \in BOOLEAN : Save(Main, p, t, ok)
    \/ \E p \in Contexts : Load(Main, p)
    \/ \E p \in Contexts : LoadById(Main, p.id, p.nuts3_id, p.year)
    \/ \E p \in Contexts : Delete(Main, p)
    \/ \E p \in Contexts : Exists(Main, p)
    \/ GetStats(Main)
    \/ Close(Main)
    \/ \E exc \in BOOLEAN : Exit(Main, exc)
    \/ \E ref \in Refs : RecompressWithDictionary(Main, ref)
    \/ RecompressAll(Main)

SpecAuto == Init /\ [][NextAuto]_vars

(***************************************************************************)
(* C19: without manual training, every dictionaries table, the one of each *)
(* partition and the one of the global dictionary file, holds at most one  *)
(* row in every reachable state, and no step removes or replaces a         *)
(* dictionary row: a table that has a row is left as it is.                *)
(***************************************************************************)
C19_TrainedOnce ==
    /\ [](\A file \in AllRefs \cup {GLOBAL_DICT_DB} :
             Len(disk.dictionaries[file]) <= 1)
    /\ [][\A file \in AllRefs \cup {GLOBAL_DICT_DB} :
             disk.dictionaries[file] # << >> =>
                 disk.dictionaries'[file] = disk.dictionaries[file]]_vars

\* A partition with its dictionary and a record saved under it, and the
\* global dictionary with a record saved under it: saves went on after both
\* trainings.
C19_Witness ==
    /\ \E ref \in Refs :
           /\ Len(disk.dictionaries[ref]) = 1
           /\ \E row \in disk.texts[ref] : row.dict_id = 1
    /\ Len(disk.dictionaries[GLOBAL_DICT_DB]) = 1
    /\ \E ref \in Refs : \E row \in disk.texts[ref] :
           row.dict_id = GLOBAL_DICT_ID /\ row.data.dict # NoDict

(***************************************************************************)
(* C20: in every reachable state, recompress_with_dictionary on a          *)
(* partition that has its own dictionary rewrites every record tagged NONE *)
(* or GLOBAL whose payload decompresses under the regime of its tag: the   *)
(* record keeps its content and gets the payload compressed with, and the  *)
(* id of, the partition's latest dictionary.  The call returns the number  *)
(* of these records.  A record whose payload does not decompress, like     *)
(* every record with a positive tag, stays as it is and is not counted.    *)
(***************************************************************************)
C20_RecompressOwnDict ==
    \A ref \in Refs :
        disk.dictionaries[ref] # << >> =>
            LET c == recompress_with_dictionary(W, ref)
                after == c.s.disk.texts[ref]
                own == LatestDict(disk, ref)
            IN  /\ c.r = RetInt(Cardinality(Eligible(disk, ref)))
                /\ Cardinality(after) = Cardinality(disk.texts[ref])
                /\ \A row \in disk.texts[ref] \ Eligible(disk, ref) : row \in after
                /\ \A row \in Eligible(disk, ref) :
                       \E new \in after :
                           /\ new.attachment_id = row.attachment_id
                           /\ new.dict_id = Len(disk.dictionaries[ref])
                           /\ new.data = ZstdCompress(row.data.bytes, own)
                           /\ new.compressed_size = FrameLen(new.data)
                           /\ new.original_size = row.original_size
                           /\ _decompress(c.s, ref, new.data, new.dict_id).r
                                  = RetText(Utf8Decode(row.data.bytes))

\* A partition with its own dictionary that holds a record whose payload
\* does not decompress next to one that does: the call rewrites the one and
\* skips the other.
C20_Witness ==
    \E ref \in Refs :
        /\ disk.dictionaries[ref] # << >>
        /\ \E row \in disk.texts[ref] :
               row.dict_id = GLOBAL_DICT_ID /\ ~Decodes(disk, ref, row)
        /\ Eligible(disk, ref) # {}
        /\ recompress_with_dictionary(W, ref).r = RetInt(1)

(***************************************************************************)
(* Vocabulary of the frame properties                                      *)
(***************************************************************************)
\* Whether a partition of directory state d2 holds the item ids of d1 with
\* their original sizes, and the records of d1 with a positive tag.
Keeps(d1, d2, ref) ==
    /\ {<<row.attachment_id, row.original_size>> : row \in d2.texts[ref]}
           = {<<row.attachment_id, row.original_size>> : row \in d1.texts[ref]}
    /\ Cardinality(d2.texts[ref]) = Cardinality(d1.texts[ref])
    /\ \A row \in d1.texts[ref] : row.dict_id > 0 => row \in d2.texts[ref]

(***************************************************************************)
(* C21: in every reachable state, recompress_with_dictionary of any        *)
(* partition and recompress_all leave, in every partition, the set of item *)
(* ids, every record's original size and every record with a positive tag  *)
(* as they were, leave all dictionary rows as they were, and               *)
(* recompress_with_dictionary leaves the records of the other partitions   *)
(* untouched.                                                              *)
(***************************************************************************)
C21_RecompressFrame ==
    /\ \A ref \in Refs :
           LET c == recompress_with_dictionary(W, ref).s
           IN  /\ Keeps(disk, c.disk, ref)
               /\ c.disk.dictionaries = disk.dictionaries
               /\ \A other \in AllRefs \ {ref} :
                      c.disk.texts[other] = disk.texts[other]
    /\ LET c == recompress_all(W).s
       IN  /\ \A ref \in AllRefs : Keeps(disk, c.disk, ref)
           /\ c.disk.dictionaries = disk.dictionaries

\* A recompression that rewrites a record of a partition which also holds a
\* record with a positive tag, while the other partition holds records.
C21_Witness ==
    \E ref \in Refs :
        /\ recompress_with_dictionary(W, ref).r.n > 0
        /\ \E row \in disk.texts[ref] : row.dict_id > 0
        /\ \E other \in Refs \ {ref} : disk.texts[other] # {}

(***************************************************************************)
(* A recompression run cut short.  sqlite3.connect is called with the      *)
(* default isolation level, so the first UPDATE of the loop opens a        *)
(* transaction that only the conn.commit() after the loop ends.  When the  *)
(* process is killed inside the loop sqlite rolls that transaction back;   *)
(* the next process starts with a new facade.                              *)
(***************************************************************************)
\* recompress_with_dictionary up to its loop: the state, the dictionary and
\* tag it compresses with, the rows its loop rewrites, and whether it gets
\* to the loop at all.
RecompressPlan(s, ref) ==
    LET d == _get_dict(_get_connection(s, ref), ref)
        i == _current_dict_id(d.s, ref)
        rows == RecompressRows(i.s.disk.texts[ref])
        g == _load_global_dict(i.s)
    IN  [s |-> g.s, d |-> d.r, dict_id |-> i.r,
         done |-> {row \in rows : RecompressOk(g.r, row)},
         loops |-> d.r # NoDict /\ i.r # NO_DICT_ID /\ rows # {}]

\* The first k of the rows in the order of the SELECT (by attachment_id).
FirstRows(rows, k) ==
    {row \in rows :
        Cardinality({o \in rows : o.attachment_id < row.attachment_id}) < k}

\* The store after k UPDATEs of the loop, were each of them committed.
RecompressCommitted(s, ref, k) ==
    LET p == RecompressPlan(s, ref)
    IN  [p.s.disk EXCEPT !.texts[ref] =
            {IF row \in FirstRows(p.done, k)
             THEN RecompressRow(row, p.d, p.dict_id) ELSE row : row \in @}]

\* The store after the process is killed when the loop has done k UPDATEs:
\* the open transaction is rolled back.
RecompressKilledDisk(s, ref, k) == RecompressPlan(s, ref).s.disk

\* recompress_with_dictionary(ref) by facade f, killed after k UPDATEs.
RecompressKilled(f, ref, k) ==
    LET p == RecompressPlan(World(f), ref)
    IN  /\ p.loops
        /\ k \in 0..Cardinality(p.done)
        /\ disk' = RecompressKilledDisk(World(f), ref, k)
        /\ fac' = [fac EXCEPT ![f] = NewFacade]
        /\ UNCHANGED saved
        /\ UNCHANGED th

NextInterrupt ==
    \/ Next
    \/ \E ref \in Refs, k \in 0..MaxItemId : RecompressKilled(Main, ref, k)

SpecInterrupt == Init /\ [][NextInterrupt]_vars

(***************************************************************************)
(* C22: in every reachable state, for every partition whose recompression  *)
(* reaches its loop and every k up to the number of records the loop       *)
(* rewrites, a run killed after k records have been rewritten leaves the   *)
(* store with those k records rewritten (new payload, tag and compressed   *)
(* size) and every other record as it was.                                 *)
(***************************************************************************)
C22_CommitPerRecord ==
    \A ref \in Refs :
        LET p == RecompressPlan(W, ref)
        IN  p.loops =>
                \A k \in 0..Cardinality(p.done) :
                    RecompressKilledDisk(W, ref, k) = RecompressCommitted(W, ref, k)


(***************************************************************************)
(* A store of many partition files: one facade saving one record into each *)
(* of six partitions and a second record into one of them, deleting, and   *)
(* training the global dictionary.                                         *)
(***************************************************************************)
QuotaContexts ==
    {p \in [id : ItemIds, nuts3_id : QuotaNuts3, year : QuotaYears] :
        p.id = 1 \/ (p.nuts3_id = 116 /\ p.year = 2024)}

NextQuota ==
    \/ \E p \in QuotaContexts, ok \in BOOLEAN : Save(Main, p, << >>, ok)
    \/ \E p \in {q \in QuotaContexts : q.nuts3_id = 19} : Delete(Main, p)

SpecQuota == Init /\ [][NextQuota]_vars

\* save up to and including its conn.commit(): the record is stored.
SaveInserted(s, pending, text) ==
    LET ref == _compute_ref(pending)
        c == _compress(_get_connection(s, ref), ref, text)
        i == _current_dict_id(c.s, ref)
        row == TextRow(pending.id, c.r, i.r, Len(Utf8Encode(text)))
    IN  [i.s EXCEPT !.disk.texts[ref] = InsertOrReplace(@, row)]

\* Whether _maybe_train_dictionary, called for partition ref in state s,
\* gets to call train_global_dictionary, and the state in which it calls it.
GlobalTrainingCall(s, ref) ==
    LET g == _load_global_dict(s)
        files == PartitionFiles(s.disk)
    IN  [s |-> ConnectAll(g.s, files),
         reached |-> /\ s.disk.dictionaries[ref] = << >>
                     /\ Cardinality(s.disk.texts[ref]) < DICT_TRAINING_THRESHOLD
                     /\ g.r = NoDict
                     /\ TotalTexts(s.disk, files) >= GLOBAL_DICT_TRAINING_THRESHOLD]

\* Whether train_global_dictionary gives up before it calls the codec: no
\* partition file, or fewer than the threshold of samples collected.
TooFewSamples(s) ==
    LET file_refs == PartitionFiles(s.disk)
    IN  \/ file_refs = << >>
        \/ Len(CollectAll(s, file_refs, PerFile(file_refs)).r)
               < GLOBAL_DICT_TRAINING_THRESHOLD

(***************************************************************************)
(* C23: in every reachable state, a train_global_dictionary call that      *)
(* finds no partition file or collects fewer than T_global samples returns *)
(* False, leaves the directory as it is (no file, no dictionary row, no    *)
(* record changes) and keeps every cached dictionary handle; and a save    *)
(* whose global training gives up in this way returns the compressed size, *)
(* has stored its record and nothing else, and the same save made again    *)
(* gets to call train_global_dictionary again.                             *)
(***************************************************************************)
C23_TooFewSamples ==
    /\ \A ok \in BOOLEAN :
           LET c == train_global_dictionary(W, ok)
           IN  TooFewSamples(W) =>
                   /\ c.r = FALSE
                   /\ c.s.disk = disk
                   /\ c.s.f.dicts = fac[Main].dicts
                   /\ fac[Main].global_dict_loaded =>
                          /\ c.s.f.global_dict_loaded
                          /\ c.s.f.global_dict = fac[Main].global_dict
    /\ \A p \in QuotaContexts, text \in Texts, ok \in BOOLEAN :
           LET ref == _compute_ref(p)
               s1 == SaveInserted(W, p, text)
               call == GlobalTrainingCall(s1, ref)
               c == save(W, p, text, ok)
           IN  (call.reached /\ TooFewSamples(call.s)) =>
                   /\ c.r.kind = "int"
                   /\ \E row \in RowsWithId(c.s.disk.texts[ref], p.id) :
                          /\ c.r.n = row.compressed_size
                          /\ Utf8Decode(row.data.bytes) = text
                   /\ c.s.disk = s1.disk
                   /\ c.s.f.dicts = s1.f.dicts
                   /\ GlobalTrainingCall(SaveInserted(c.s, p, text), ref).reached

\* A save has stored its record and its global training gave up for want
\* of samples although the store holds T_global records: the facade has
\* looked for the global dictionary and holds a connection to every
\* partition file, and the same save again runs into the same attempt.
C23_Witness ==
    \E p \in QuotaContexts :
        LET ref == _compute_ref(p)
            call == GlobalTrainingCall(SaveInserted(W, p, << >>), ref)
        IN  /\ RowsWithId(disk.texts[ref], p.id) # {}
            /\ fac[Main].global_dict_loaded
            /\ \A r \in disk.exists : r \in fac[Main].connections
            /\ fac[Main].dicts[ref] # NotCached
            /\ call.reached
            /\ TooFewSamples(call.s)
            /\ TotalTexts(disk, PartitionFiles(disk)) >= GLOBAL_DICT_TRAINING_THRESHOLD


\* The samples train_global_dictionary takes from the i-th partition file:
\* collected is what _collect_samples returns for it, kept how many of them
\* are left in all_samples after the cut to DICT_TRAINING_MAX_SAMPLES.
SampleShare(s, i) ==
    LET file_refs == PartitionFiles(s.disk)
        per_file == PerFile(file_refs)
        before == CollectAll(s, SubSeq(file_refs, 1, i - 1), per_file)
        own == _collect_samples(_get_connection(before.s, file_refs[i]),
                                file_refs[i], per_file).r
        room == Max(0, DICT_TRAINING_MAX_SAMPLES - Len(before.r))
    IN  [collected |-> Len(own),
         kept |-> IF Len(own) < room THEN Len(own) ELSE room]

\* Whether partition file ref holds a record that _collect_samples can
\* decompress.
HoldsSample(s, ref) ==
    \E row \in s.disk.texts[ref] :
        SampleOf(s.disk, ref, _load_global_dict(s).r, row) # << >>

\* The length of all_samples after the cut.
SampleTotal(s) ==
    LET file_refs == PartitionFiles(s.disk)
        n == Len(CollectAll(s, file_refs, PerFile(file_refs)).r)
    IN  IF n > DICT_TRAINING_MAX_SAMPLES THEN DICT_TRAINING_MAX_SAMPLES ELSE n

(***************************************************************************)
(* C24: in every reachable state, the sample set that a global training    *)
(* pass over the F partition files builds holds at least one sample from   *)
(* every file with a decompressable record, at most                        *)
(* max(MIN_PER_FILE, MAX_SAMPLES div F) samples from any one file, and at  *)
(* most MAX_SAMPLES samples in all.                                        *)
(***************************************************************************)
C24_SampleQuota ==
    LET file_refs == PartitionFiles(disk)
    IN  file_refs # << >> =>
            /\ \A i \in 1..Len(file_refs) :
                   /\ HoldsSample(W, file_refs[i]) => SampleShare(W, i).kept >= 1
                   /\ SampleShare(W, i).kept <= PerFile(file_refs)
            /\ SampleTotal(W) <= DICT_TRAINING_MAX_SAMPLES


\* Whether _maybe_train_dictionary, called for partition ref in state s,
\* calls _train_per_file_dictionary.
PerFileTrainingCall(s, ref) ==
    /\ s.disk.dictionaries[ref] = << >>
    /\ Cardinality(s.disk.texts[ref]) >= DICT_TRAINING_THRESHOLD

\* Whether that training ends without a dictionary: too few samples
\* decompress, or the codec rejects them.
PerFileTrainingFails(s, ref, codec_ok) ==
    \/ Len(_collect_samples(s, ref, DICT_TRAINING_MAX_SAMPLES).r)
           < DICT_TRAINING_THRESHOLD
    \/ ~codec_ok

(***************************************************************************)
(* C25: in every reachable state, a save that finds its partition with at  *)
(* least T_local records and no dictionary runs the per-partition          *)
(* training; when that training fails (too few samples decompress, or the  *)
(* codec rejects them) the save returns the compressed size, has stored    *)
(* its record and changed nothing else on disk, no dictionary row          *)
(* included, and every save into the partition that follows runs the       *)
(* training again: it stores the dictionary as soon as the samples         *)
(* suffice and the codec accepts them.                                     *)
(***************************************************************************)
C25_PerFileTrainingFailure ==
    \A p \in Contexts, text \in Texts, ok \in BOOLEAN :
        LET ref == _compute_ref(p)
            s1 == SaveInserted(W, p, text)
            c == save(W, p, text, ok)
        IN  (PerFileTrainingCall(s1, ref) /\ PerFileTrainingFails(s1, ref, ok)) =>
                /\ c.r.kind = "int"
                /\ \E row \in RowsWithId(c.s.disk.texts[ref], p.id) :
                       /\ c.r.n = row.compressed_size
                       /\ Utf8Decode(row.data.bytes) = text
                /\ c.s.disk = s1.disk
                /\ c.s.disk.dictionaries = disk.dictionaries
                /\ \A q \in Contexts, text2 \in Texts, ok2 \in BOOLEAN :
                       LET s2 == SaveInserted(c.s, q, text2)
                           c2 == save(c.s, q, text2, ok2)
                       IN  _compute_ref(q) = ref =>
                               /\ PerFileTrainingCall(s2, ref)
                               /\ IF PerFileTrainingFails(s2, ref, ok2)
                                  THEN c2.s.disk = s2.disk
                                  ELSE Len(c2.s.disk.dictionaries[ref]) = 1

\* A partition that holds T_local records and no dictionary after a save
\* into it (its training has failed), where the save made again fails
\* again for want of samples that decompress, and where another save
\* succeeds in training.
C25_Witness ==
    \E p \in Contexts, q \in Contexts :
        LET ref == _compute_ref(p)
            s1 == SaveInserted(W, p, << >>)
            s2 == SaveInserted(W, q, << >>)
        IN  /\ RowsWithId(disk.texts[ref], p.id) # {}
            /\ Cardinality(disk.texts[ref]) >= DICT_TRAINING_THRESHOLD
            /\ disk.dictionaries[ref] = << >>
            /\ _compute_ref(q) = ref
            /\ PerFileTrainingCall(s1, ref)
            /\ PerFileTrainingFails(s1, ref, TRUE)
            /\ PerFileTrainingCall(s2, ref)
            /\ ~PerFileTrainingFails(s2, ref, TRUE)


(***************************************************************************)
(* Dictionaries that go missing under the facade: the global dictionary    *)
(* file is deleted, or the dictionaries table of a partition is emptied,   *)
(* by something other than the facade.                                     *)
(***************************************************************************)
\* The directory without the file _global_dict.sqlite.
LoseGlobalDictionary(d) ==
    [d EXCEPT !.exists = @ \ {GLOBAL_DICT_DB},
              !.dictionaries[GLOBAL_DICT_DB] = << >>]

\* The directory with the dictionaries table of partition ref emptied.
LoseDictionaries(d, ref) == [d EXCEPT !.dictionaries[ref] = << >>]

\* _global_dict.sqlite is deleted; the facades keep what they have cached.
GlobalDictLost ==
    /\ GLOBAL_DICT_DB \in disk.exists
    /\ disk' = LoseGlobalDictionary(disk)
    /\ UNCHANGED fac
    /\ UNCHANGED saved
    /\ UNCHANGED th

NextLoss ==
    \/ \E p \in Contexts, t \in Texts, ok \in BOOLEAN : Save(Main, p, t, ok)
    \/ \E p \in Contexts : Load(Main, p)
    \/ Close(Main)
    \/ GlobalDictLost

SpecLoss == Init /\ [][NextLoss]_vars

(***************************************************************************)
(* C26: in every reachable state, load of a record tagged GLOBAL by a      *)
(* facade that finds no global dictionary, and load of a record with a     *)
(* positive tag from a partition whose dictionaries table has been         *)
(* emptied, do not fail: they return the bytes of the payload decoded as   *)
(* a payload without dictionary.                                           *)
(***************************************************************************)
C26_MissingDictionary ==
    \A p \in Contexts :
        LET ref == _compute_ref(p)
            emptied == [disk |-> LoseDictionaries(disk, ref), f |-> fac[Main]]
        IN  \A row \in RowsWithId(disk.texts[ref], p.id) :
                /\ (row.dict_id = GLOBAL_DICT_ID /\ _load_global_dict(W).r = NoDict)
                       => load(W, p).r = RetText(Utf8Decode(row.data.bytes))
                /\ row.dict_id > 0
                       => load(emptied, p).r = RetText(Utf8Decode(row.data.bytes))


(***************************************************************************)
(* C27: in every reachable state, a save into partition P creates no file  *)
(* and no directory but P's own and, only when its global training has     *)
(* stored a dictionary, the global dictionary file; it changes no text     *)
(* record and no dictionary row of any other partition, and the global     *)
(* dictionary table only by the row its own successful global training     *)
(* appends.                                                                *)
(***************************************************************************)
C27_SaveFrame ==
    \A p \in Contexts, text \in Texts, ok \in BOOLEAN :
        LET ref == _compute_ref(p)
            s1 == SaveInserted(W, p, text)
            call == GlobalTrainingCall(s1, ref)
            c == save(W, p, text, ok).s
            trained == call.reached /\ ~TooFewSamples(call.s) /\ ok
        IN  /\ c.disk.exists \ disk.exists \subseteq {ref, GLOBAL_DICT_DB}
            /\ c.disk.dirs \ disk.dirs \subseteq {ref[1]}
            /\ disk.exists \subseteq c.disk.exists
            /\ \A other \in AllRefs \ {ref} :
                   /\ c.disk.texts[other] = disk.texts[other]
                   /\ c.disk.dictionaries[other] = disk.dictionaries[other]
            /\ IF trained
               THEN /\ GLOBAL_DICT_DB \in c.disk.exists
                    /\ Len(c.disk.dictionaries[GLOBAL_DICT_DB]) = 1
               ELSE /\ GLOBAL_DICT_DB \in c.disk.exists
                           <=> GLOBAL_DICT_DB \in disk.exists
                    /\ c.disk.dictionaries[GLOBAL_DICT_DB]
                           = disk.dictionaries[GLOBAL_DICT_DB]

\* Another partition holds records, the partition of the save has no file
\* yet and there is no global dictionary file: the save creates its own
\* file and, its global training succeeding, the global dictionary file,
\* and no other.
C27_Witness ==
    \E p \in Contexts :
        LET ref == _compute_ref(p)
            c == save(W, p, << >>, TRUE).s
        IN  /\ ref \notin disk.exists
            /\ GLOBAL_DICT_DB \notin disk.exists
            /\ \E other \in Refs \ {ref} : disk.texts[other] # {}
            /\ c.disk.exists = disk.exists \cup {ref, GLOBAL_DICT_DB}
            /\ fac[Main].connections # {}


\* Whether every record of partition ref in directory state d has the byte
\* length of its payload as compressed_size and the UTF-8 length of the
\* text last saved for it as original_size.
SizesRight(d, ref) ==
    \A row \in d.texts[ref] :
        /\ row.compressed_size = FrameLen(row.data)
        /\ saved[ref][row.attachment_id] # Absent
        /\ row.original_size = Len(Utf8Encode(saved[ref][row.attachment_id]))

(***************************************************************************)
(* C28: in every reachable state, every text record's compressed_size is   *)
(* the byte length of its stored payload and its original_size the UTF-8   *)
(* byte length of the text last saved for it; and the same holds of the    *)
(* records as recompress_with_dictionary and recompress_all leave them.    *)
(***************************************************************************)
C28_Sizes ==
    /\ \A ref \in AllRefs : SizesRight(disk, ref)
    /\ \A ref \in Refs :
           SizesRight(recompress_with_dictionary(W, ref).s.disk, ref)
    /\ \A ref \in AllRefs : SizesRight(recompress_all(W).s.disk, ref)

\* A record of the two-byte text "ž" (one code point), stored without
\* dictionary, that recompression rewrites to a payload of another length,
\* next to a record saved with the dictionary.
C28_Witness ==
    \E ref \in Refs :
        LET c == recompress_with_dictionary(W, ref)
        IN  /\ c.r.n > 0
            /\ \E row \in disk.texts[ref] :
                   /\ row.dict_id = NO_DICT_ID
                   /\ saved[ref][row.attachment_id] = <<382>>
                   /\ row.original_size = 2
                   /\ \E new \in RowsWithId(c.s.disk.texts[ref], row.attachment_id) :
                          new.compressed_size # row.compressed_size
            /\ \E row \in disk.texts[ref] : row.dict_id > 0


(***************************************************************************)
(* C29: the partition key is injective in (nuts3_id, year).  In every      *)
(* reachable state, two contexts with the same key have the same nuts3_id  *)
(* and the same year; a context with an integer nuts3_id, 0 included, is   *)
(* not filed under "_unknown" and one with an integer year, 0 included,    *)
(* not under "_nodate.sqlite"; and a record saved for one pair of values   *)
(* is not what load_by_id returns for another pair.                        *)
(***************************************************************************)
C29_ResolveInjective ==
    \A p \in ResolveContexts :
        /\ p.nuts3_id # None => _compute_ref(p)[1] # "_unknown"
        /\ p.year # None => _compute_ref(p)[2] # "_nodate.sqlite"
        /\ \A q \in ResolveContexts :
               (p.nuts3_id # q.nuts3_id \/ p.year # q.year) =>
                   /\ _compute_ref(p) # _compute_ref(q)
                   /\ load_by_id(W, q.id, q.nuts3_id, q.year).r
                          = load_by_id(save(W, p, << >>, FALSE).s,
                                       q.id, q.nuts3_id, q.year).r


(***************************************************************************)
(* Two facades on the same base path, used in turn: every call runs to its *)
(* end before the other facade is called.                                  *)
(***************************************************************************)
NextFacades ==
    \/ \E f \in Facades, p \in Contexts, ok \in BOOLEAN : Save(f, p, << >>, ok)
    \/ \E f \in Facades, p \in Contexts : Load(f, p)
    \/ \E f \in Facades : Close(f)

SpecFacades == Init /\ [][NextFacades]_vars

\* The dictionaries a tag can stand for in directory state d: none for
\* NONE, a row of the global dictionary file for GLOBAL, the row of that id
\* in the partition's table for a positive tag.
DictsOfTag(d, ref, dict_id) ==
    IF dict_id = NO_DICT_ID THEN {NoDict}
    ELSE IF dict_id = GLOBAL_DICT_ID
    THEN {d.dictionaries[GLOBAL_DICT_DB][i].dict_data :
              i \in 1..Len(d.dictionaries[GLOBAL_DICT_DB])}
    ELSE {d.dictionaries[ref][i].dict_data :
              i \in {dict_id} \cap (1..Len(d.dictionaries[ref]))}

(***************************************************************************)
(* C30: with two facades writing in turn, in every reachable state every   *)
(* stored record's payload was compressed with a dictionary its tag        *)
(* stands for: without dictionary for NONE, with a global dictionary for   *)
(* GLOBAL, with the partition's dictionary row of that id for a positive   *)
(* tag.                                                                    *)
(***************************************************************************)
C30_TagNamesDictAcrossFacades ==
    \A ref \in AllRefs : \A row \in disk.texts[ref] :
        row.data.dict \in DictsOfTag(disk, ref, row.dict_id)

====
